---- MODULE Spec2Model ----
(***************************************************************************)
(* A model of the local, filesystem-backed artifact cache of               *)
(* cexa-ai/local-cache: the key-to-path mapping (utils.ts), the tar+zstd   *)
(* codec wrappers (compression.ts) and the save / restore / lookup engine  *)
(* (localCache.ts).                                                        *)
(*                                                                         *)
(* Strings that the code inspects character by character (cache keys) are  *)
(* sequences of one-character strings.  Paths are sequences of path        *)
(* components.  An optional argument is a sequence of length 0 (omitted)   *)
(* or 1 (given).                                                           *)
(***************************************************************************)
EXTENDS Integers, Sequences, FiniteSets, TLC

VARIABLES
    env,             \* process.env: RUNNER_TOOL_CACHE, HOME and RUNNER_TEMP ("" = unset)
    cacheDirExists,  \* fs.existsSync(cacheDir) for the resolved cache directory
    archive,         \* archive file name -> "absent" | "valid" | "corrupt"
    content,         \* archive file name -> the members of a valid archive and the
                     \* key whose save wrote them
    fsPaths,         \* the workspace paths that exist on the filesystem
    pc,              \* where the running engine operation stands
    call,            \* the operation in progress or just returned, with its arguments
    pos,             \* restore: 0 = the primary key, i = restoreKeys[i]
    probes,          \* keys handed to cacheExists during the call, in order
    decompressCalls, \* invocations of decompressWithZstd during the call, in order
    compressCalls,   \* invocations of compressWithZstd during the call, in order
    compressReturned,\* the booleans those invocations returned, in order
    result,          \* what the call returned
    entry,           \* the entry point that runs, with the inputs it read
    outputs,         \* core.setOutput calls of the invocation, in order
    failed,          \* core.setFailed was called in the invocation
    stateWrites,     \* core.saveState calls of the invocation, in order
    savedState,      \* the cross-phase state that core.getState reads
    procs,           \* concurrent processes saving one key: where each stands
    blocks           \* the archive file they write, block by block: who wrote it

vars == <<env, cacheDirExists, archive, content, fsPaths, pc, call, pos, probes,
          decompressCalls, compressCalls, compressReturned, result,
          entry, outputs, failed, stateWrites, savedState, procs, blocks>>

\* What a single process on its own leaves alone.
concVars == <<procs, blocks>>

\* What the engine and utils.ts leave alone.
entryVars == <<entry, outputs, failed, stateWrites, savedState>>

fsVars == <<cacheDirExists, archive, content>>
logVars == <<probes, decompressCalls, compressCalls, compressReturned>>

----------------------------------------------------------------------------
(* Bounds of the model *)

MaxRestoreKeys == 2
MaxPaths == 2
\* Keys of up to this many characters are handed to getCacheFilePath on its own.
MaxKeyLen == 3
\* Path inputs of up to this many characters are handed to resolvePaths.
MaxRawLen == 5

(* Inputs *)

\* [a-zA-Z0-9], the characters key.replace(/[^a-zA-Z0-9]/g, '_') keeps.
Alnum ==
    {"a","b","c","d","e","f","g","h","i","j","k","l","m","n","o","p","q","r",
     "s","t","u","v","w","x","y","z",
     "A","B","C","D","E","F","G","H","I","J","K","L","M","N","O","P","Q","R",
     "S","T","U","V","W","X","Y","Z",
     "0","1","2","3","4","5","6","7","8","9"}

\* Cache keys: "a-" and "a/" sanitize to the same file name, "b" to its own.
Keys == { <<"a", "-">>, <<"a", "/">>, <<"b">> }

Paths == {"node_modules", "dist"}

Levels == {-5, 3, 22}

TargetDirs == {"/work"}

Envs ==
    { [RUNNER_TOOL_CACHE |-> "/opt/hostedtoolcache", HOME |-> "/home/runner",
       RUNNER_TEMP |-> "/runner/_temp"],
      [RUNNER_TOOL_CACHE |-> "", HOME |-> "/home/runner", RUNNER_TEMP |-> ""],
      [RUNNER_TOOL_CACHE |-> "", HOME |-> "", RUNNER_TEMP |-> ""] }

SeqsUpTo(S, n) == UNION { [1..m -> S] : m \in 0..n }

Optional(S) == { <<>> } \cup { <<x>> : x \in S }

\* JavaScript's undefined as a restoredKey / matchedKey: no key is equal to it.
Undefined == <<"undefined">>

NoResult == [kind |-> "none"]

NoCall == [op |-> "none"]

\* No entry point runs.
NoEntry == [name |-> "none"]

\* core.getState of a name that was never saved is the empty string.
NoState == [CACHE_KEY |-> <<>>, CACHE_PATH |-> <<>>, CACHE_COMPRESSION_LEVEL |-> ""]

\* The processes that race on one cache directory.
Procs == {1, 2}

\* A process that looks the key up, or restores it, meanwhile.
Readers == {3}

AllProcs == Procs \cup Readers

\* A process that has not started.
NoProc == [pc |-> "none", saw |-> FALSE, error |-> "none", offset |-> 0,
           observed |-> <<>>]

\* The elements of a list.
Range(s) == { s[i] : i \in 1..Len(s) }

\* What an absent or unreadable archive holds.
NoContent == [key |-> <<>>, members |-> {}]

\* process.cwd()
Cwd == "<cwd>"

\* process.env.RUNNER_TEMP || '/tmp'
TempDir(e) == IF e.RUNNER_TEMP # "" THEN e.RUNNER_TEMP ELSE "/tmp"

----------------------------------------------------------------------------
(* utils.ts *)

\* process.env.RUNNER_TOOL_CACHE || path.join(process.env.HOME || '/tmp', '.local-cache')
CacheDirPath(e) ==
    IF e.RUNNER_TOOL_CACHE # ""
    THEN <<e.RUNNER_TOOL_CACHE>>
    ELSE <<(IF e.HOME # "" THEN e.HOME ELSE "/tmp"), ".local-cache">>

\* Faulty variant of safeKey: the dash is taken for a safe character.
safeKey_KeepsDash(key) ==
    [i \in 1..Len(key) |-> IF key[i] \in Alnum \cup {"-"} THEN key[i] ELSE "_"]

\* key.replace(/[^a-zA-Z0-9]/g, '_')
safeKey(key) == [i \in 1..Len(key) |-> IF key[i] \in Alnum THEN key[i] ELSE "_"]

\* `${safeKey}.tar.zst`
ArchiveName(key) == Append(safeKey(key), ".tar.zst")

ArchiveNames == { ArchiveName(k) : k \in Keys }

\* path.join(getCacheDir(), `${safeKey}.tar.zst`)
getCacheFilePath(key) == [dir |-> CacheDirPath(env), file |-> ArchiveName(key)]

\* getCacheDir: if (!fs.existsSync(cacheDir)) fs.mkdirSync(cacheDir, {recursive: true}).
\* mkdirOk is the outcome of mkdirSync when it is called; a failing mkdirSync throws.
\* mkdir tells whether mkdirSync was called.
\* Faulty variant of getCacheDir: mkdirSync is called without the existence check.
getCacheDir_AlwaysMkdir(dirExists, mkdirOk) ==
    [threw |-> ~mkdirOk, dirExists |-> dirExists \/ mkdirOk, mkdir |-> TRUE]

getCacheDir(dirExists, mkdirOk) ==
    IF dirExists THEN [threw |-> FALSE, dirExists |-> TRUE, mkdir |-> FALSE]
    ELSE IF mkdirOk THEN [threw |-> FALSE, dirExists |-> TRUE, mkdir |-> TRUE]
    ELSE [threw |-> TRUE, dirExists |-> FALSE, mkdir |-> TRUE]

\* Faulty variant of cacheExists: an archive counts only for the key that wrote it.
cacheExists_ChecksOwner(key) ==
    /\ archive[ArchiveName(key)] # "absent"
    /\ content[ArchiveName(key)].key = key

\* fs.existsSync(getCacheFilePath(key)), once getCacheDir has returned
cacheExists(key) == archive[ArchiveName(key)] # "absent"

\* The characters String.prototype.trim removes, as far as RawChars has them.
Whitespace == {" ", "\t", "\r", "\n"}

\* pathInput.split('\n'): the pieces between the newlines, empty ones included.
RECURSIVE Split(_)
Split(s) ==
    IF \A i \in 1..Len(s) : s[i] # "\n"
    THEN <<s>>
    ELSE LET i == CHOOSE j \in 1..Len(s) :
                      s[j] = "\n" /\ \A h \in 1..(j - 1) : s[h] # "\n"
         IN  <<SubSeq(s, 1, i - 1)>> \o Split(SubSeq(s, i + 1, Len(s)))

RECURSIVE TrimStart(_)
TrimStart(s) ==
    IF s # <<>> /\ Head(s) \in Whitespace THEN TrimStart(Tail(s)) ELSE s

RECURSIVE TrimEnd(_)
TrimEnd(s) ==
    IF s # <<>> /\ s[Len(s)] \in Whitespace
    THEN TrimEnd(SubSeq(s, 1, Len(s) - 1))
    ELSE s

\* Faulty variant of Trim: only leading whitespace is removed.
Trim_StartOnly(s) == TrimStart(s)

\* s.trim()
Trim(s) == TrimEnd(TrimStart(s))

\* pathInput.split('\n').map((s) => s.trim()).filter((s) => s !== '')
resolvePaths(pathInput) ==
    LET lines == Split(pathInput)
        trimmed == [i \in 1..Len(lines) |-> Trim(lines[i])]
    IN  SelectSeq(trimmed, LAMBDA t : t # <<>>)

----------------------------------------------------------------------------
(* localCache.ts: return values *)

LookupResult(cacheHit, matchedKey) ==
    [kind |-> "lookup", cacheHit |-> cacheHit, matchedKey |-> matchedKey]

RestoreResult(cacheHit, restoredKey) ==
    [kind |-> "restore", cacheHit |-> cacheHit, restoredKey |-> restoredKey]

SaveResult(success) == [kind |-> "save", success |-> success]

----------------------------------------------------------------------------
(* LocalCache.lookup: synchronous, one step *)

\* return { cacheHit: true, matchedKey: primaryKey }
LookupPrimaryHit(primaryKey) == LookupResult(TRUE, primaryKey)

\* return { cacheHit: false, matchedKey: restoreKey }
LookupFallbackHit(restoreKey) == LookupResult(FALSE, restoreKey)

\* return { cacheHit: false, matchedKey: undefined }
LookupMiss == LookupResult(FALSE, Undefined)

\* Faulty variant of LookupFallback: the list is scanned from its last entry.
RECURSIVE LookupFallback_Backwards(_, _, _)
LookupFallback_Backwards(restoreKeys, i, probed) ==
    LET j == Len(restoreKeys) - i + 1
    IN  IF i > Len(restoreKeys)
        THEN [result |-> LookupMiss, probes |-> probed]
        ELSE IF cacheExists(restoreKeys[j])
             THEN [result |-> LookupFallbackHit(restoreKeys[j]),
                   probes |-> Append(probed, restoreKeys[j])]
             ELSE LookupFallback_Backwards(restoreKeys, i + 1,
                                           Append(probed, restoreKeys[j]))

\* Faulty variant of LookupFallback: the loop stops one entry early.
RECURSIVE LookupFallback_SkipsLast(_, _, _)
LookupFallback_SkipsLast(restoreKeys, i, probed) ==
    IF i >= Len(restoreKeys)
    THEN [result |-> LookupMiss, probes |-> probed]
    ELSE IF cacheExists(restoreKeys[i])
         THEN [result |-> LookupFallbackHit(restoreKeys[i]),
               probes |-> Append(probed, restoreKeys[i])]
         ELSE LookupFallback_SkipsLast(restoreKeys, i + 1,
                                       Append(probed, restoreKeys[i]))

\* Faulty variant of LookupFallback: the loop has no early return, it probes every
\* entry and reports the first one it found.
RECURSIVE LookupFallback_ProbesAll(_, _, _)
LookupFallback_ProbesAll(restoreKeys, i, probed) ==
    IF i > Len(restoreKeys)
    THEN [result |-> LookupMiss, probes |-> probed]
    ELSE LET rest == LookupFallback_ProbesAll(restoreKeys, i + 1,
                                              Append(probed, restoreKeys[i]))
         IN  IF cacheExists(restoreKeys[i])
             THEN [result |-> LookupFallbackHit(restoreKeys[i]), probes |-> rest.probes]
             ELSE rest

\* for (const restoreKey of restoreKeys) if (cacheExists(restoreKey)) return ...
\* from entry i on; probed are the keys handed to cacheExists so far.
RECURSIVE LookupFallback(_, _, _)
LookupFallback(restoreKeys, i, probed) ==
    IF i > Len(restoreKeys)
    THEN [result |-> LookupMiss, probes |-> probed]
    ELSE IF cacheExists(restoreKeys[i])
         THEN [result |-> LookupFallbackHit(restoreKeys[i]),
               probes |-> Append(probed, restoreKeys[i])]
         ELSE LookupFallback(restoreKeys, i + 1, Append(probed, restoreKeys[i]))

\* Faulty variant of LookupBody: the fallback keys are checked before the primary key.
LookupBody_FallbackFirst(primaryKey, restoreKeys) ==
    LET f == LookupFallback(restoreKeys, 1, <<>>)
    IN  IF f.result # LookupMiss THEN f
        ELSE IF cacheExists(primaryKey)
             THEN [result |-> LookupPrimaryHit(primaryKey),
                   probes |-> Append(f.probes, primaryKey)]
             ELSE [result |-> LookupMiss, probes |-> Append(f.probes, primaryKey)]

\* The body of lookup's try block, given that getCacheDir did not throw.
LookupBody(primaryKey, restoreKeys) ==
    IF cacheExists(primaryKey)
    THEN [result |-> LookupPrimaryHit(primaryKey), probes |-> <<primaryKey>>]
    ELSE LookupFallback(restoreKeys, 1, <<primaryKey>>)

\* No engine operation is running: each process performs one and exits.
Idle == pc = "idle"

Lookup(primaryKey, restoreKeysArg, mkdirOk) ==
    LET restoreKeys == IF restoreKeysArg = <<>> THEN <<>> ELSE restoreKeysArg[1]
        d == getCacheDir(cacheDirExists, mkdirOk)
        r == IF d.threw
             THEN [result |-> LookupMiss, probes |-> <<primaryKey>>]
             ELSE LookupBody(primaryKey, restoreKeys)
    IN  /\ Idle
        /\ call' = [op |-> "lookup", key |-> primaryKey, restoreKeys |-> restoreKeys]
        /\ cacheDirExists' = d.dirExists
        /\ probes' = r.probes
        /\ result' = r.result
        /\ decompressCalls' = <<>>
        /\ compressCalls' = <<>>
        /\ compressReturned' = <<>>
        /\ pos' = 0
        /\ pc' = "done"
        /\ UNCHANGED <<env, archive, content, fsPaths>>
        /\ UNCHANGED <<entryVars, concVars>>

----------------------------------------------------------------------------
(* compression.ts: the codec, by its outcomes *)

\* decompressWithZstd(archivePath, targetDir), by what ends it:
\*   "toolMissing"  io.which('tar' | 'zstd', true) throws      -> false
\*   "missingFile"  !fs.existsSync(archivePath)                -> false
\*   "exit0"        tar -xf ran and exited 0                   -> true
\*   "exitNonZero"  tar -xf ran and failed                     -> false
\* A corrupt archive never extracts; a valid one may still fail (disk full).
DecompressOutcomes(file) ==
    CASE file = "absent"  -> {"toolMissing", "missingFile"}
      [] file = "valid"   -> {"toolMissing", "exit0", "exitNonZero"}
      [] file = "corrupt" -> {"toolMissing", "exitNonZero"}

\* The boolean decompressWithZstd returns.
DecompressSuccess(outcome) == outcome = "exit0"

\* The directory tar -xf is pointed at with -C.  dirOk: targetDir exists or
\* mkdirSync created it, otherwise targetDir = process.cwd(); writable: accessSync
\* (targetDir, W_OK) passes, otherwise targetDir = RUNNER_TEMP || '/tmp'.
\* Faulty variant of EffectiveTargetDir: the write-permission fallback is taken
\* whatever accessSync says.
EffectiveTargetDir_AlwaysTemp(targetDir, dirOk, writable) == TempDir(env)

EffectiveTargetDir(targetDir, dirOk, writable) ==
    LET dir == IF dirOk THEN targetDir ELSE Cwd
    IN  IF writable THEN dir ELSE TempDir(env)

\* Which of the two catch blocks replaced targetDir last, if any.
Fallback(dirOk, writable) ==
    IF ~writable THEN "temp" ELSE IF ~dirOk THEN "cwd" ELSE "none"

\* Where a decompressWithZstd call put the members of the archive: nowhere
\* unless tar -xf exited 0.
Extraction(outcome, file, targetDir, dirOk, writable) ==
    IF DecompressSuccess(outcome)
    THEN [extractedTo |-> EffectiveTargetDir(targetDir, dirOk, writable),
          fallback |-> Fallback(dirOk, writable),
          members |-> content[file].members]
    ELSE [extractedTo |-> "", fallback |-> "none", members |-> {}]

\* compressWithZstd(archivePath, paths, level), by what ends it and by the file
\* tar -cf leaves at archivePath:
\*   "toolMissing"  io.which throws: tar never runs, the file is untouched -> false
\*   "exit0"        tar -cf ran and exited 0: a valid archive              -> true
\*   "exitNonZero"  tar -cf ran and failed: the file is untouched (it could
\*                  not be opened), truncated, or complete               -> false
\* wrote tells which of these happened to the file.
\* Faulty variant of CompressOutcomes: a failing tar removes the file it had opened.
CompressOutcomes_RemovesOnFailure(file) ==
    { [outcome |-> "toolMissing", file |-> file, wrote |-> "nothing"],
      [outcome |-> "exit0", file |-> "valid", wrote |-> "complete"],
      [outcome |-> "exitNonZero", file |-> "absent", wrote |-> "truncated"] }

CompressOutcomes(file) ==
    { [outcome |-> "toolMissing", file |-> file, wrote |-> "nothing"],
      [outcome |-> "exit0", file |-> "valid", wrote |-> "complete"],
      [outcome |-> "exitNonZero", file |-> file, wrote |-> "nothing"],
      [outcome |-> "exitNonZero", file |-> "corrupt", wrote |-> "truncated"],
      [outcome |-> "exitNonZero", file |-> "valid", wrote |-> "complete"] }

\* Faulty variant of ArchivedMembers: tar adds the paths to the archive that is there.
ArchivedMembers_Appends(old, paths) == old \cup Range(paths)

\* tar -cf archivePath -P ...paths: the archive is created anew from the paths,
\* whatever the file held before.
ArchivedMembers(old, paths) == Range(paths)

\* What the archive of key holds after a compressWithZstd call that wrote w.
ContentAfter(old, wrote, key, paths) ==
    CASE wrote = "nothing"   -> old
      [] wrote = "truncated" -> NoContent
      [] wrote = "complete"  -> [key |-> key,
                                 members |-> ArchivedMembers(old.members, paths)]

\* Faulty variant of CompressSuccess: the exit code of tar is not looked at.
CompressSuccess_IgnoresExitCode(outcome) == outcome # "toolMissing"

\* The boolean compressWithZstd returns.
CompressSuccess(outcome) == outcome = "exit0"

----------------------------------------------------------------------------
(* LocalCache.restore: asynchronous, one step per cacheExists probe and one
   per awaited decompressWithZstd *)

\* return { cacheHit: false, restoredKey: undefined }
RestoreMiss == RestoreResult(FALSE, Undefined)

\* The key restore is at: the primary key, then restoreKeys in list order.
KeyAt(c, p) == IF p = 0 THEN c.key ELSE c.restoreKeys[p]

\* Faulty variant of RestoreSuccess: cacheHit is computed by comparing the restored key
\* with the primary key instead of by the branch that restored it.
RestoreSuccess_HitByKeyEquality(p, key) ==
    [pc |-> "done", pos |-> p, result |-> RestoreResult(key = call.key, key)]

\* if (success) return { cacheHit: <true for the primary key, false in the
\* for loop>, restoredKey: key }
RestoreSuccess(p, key) ==
    [pc |-> "done", pos |-> p, result |-> RestoreResult(p = 0, key)]

\* The key at p was absent or failed to decompress: the for loop goes on to the
\* next entry of restoreKeys, and past the last one restore returns the miss.
RestoreContinue(p, restoreKeys) ==
    IF p < Len(restoreKeys)
    THEN [pc |-> "restoreProbe", pos |-> p + 1, result |-> NoResult]
    ELSE [pc |-> "done", pos |-> p, result |-> RestoreMiss]

\* Faulty variant of RestoreCaught: the catch block rethrows what it caught.
RestoreCaught_Rethrows(p) == [pc |-> "done", pos |-> p, result |-> [kind |-> "exception"]]

\* catch (err) { return { cacheHit: false, restoredKey: undefined } }
RestoreCaught(p) == [pc |-> "done", pos |-> p, result |-> RestoreMiss]

\* Faulty variant of RestoreProbeStep: the existence check is missing, every key is
\* handed to decompressWithZstd.
RestoreProbeStep_NoExistenceCheck(c, p, threw) ==
    IF threw THEN RestoreCaught(p)
    ELSE [pc |-> "restoreDecompress", pos |-> p, result |-> NoResult]

\* Faulty variant of RestoreProbeStep: cacheExists catches the error of getCacheDir
\* and answers false, so the loop goes on to the next key.
RestoreProbeStep_CacheExistsCatches(c, p, threw) ==
    IF threw THEN RestoreContinue(p, c.restoreKeys)
    ELSE IF cacheExists(KeyAt(c, p))
         THEN [pc |-> "restoreDecompress", pos |-> p, result |-> NoResult]
         ELSE RestoreContinue(p, c.restoreKeys)

\* if (cacheExists(key)) { const cachePath = getCacheFilePath(key); ... }
RestoreProbeStep(c, p, threw) ==
    IF threw THEN RestoreCaught(p)
    ELSE IF cacheExists(KeyAt(c, p))
         THEN [pc |-> "restoreDecompress", pos |-> p, result |-> NoResult]
         ELSE RestoreContinue(p, c.restoreKeys)

\* Faulty variant of RestoreDecompressStep: a restored primary key does not return,
\* the for loop over restoreKeys runs all the same.
RestoreDecompressStep_FallsThrough(c, p, outcome) ==
    IF DecompressSuccess(outcome) /\ (p > 0 \/ c.restoreKeys = <<>>)
    THEN RestoreSuccess(p, KeyAt(c, p))
    ELSE RestoreContinue(p, c.restoreKeys)

\* Faulty variant of RestoreDecompressStep: the for loop stops at the first entry that
\* exists, restored or not.
RestoreDecompressStep_StopsAtFirstExisting(c, p, outcome) ==
    IF DecompressSuccess(outcome)
    THEN RestoreSuccess(p, KeyAt(c, p))
    ELSE IF p = 0 THEN RestoreContinue(p, c.restoreKeys) ELSE RestoreCaught(p)

\* Faulty variant of RestoreDecompressStep: a primary key that fails to decompress ends
\* the restore.
RestoreDecompressStep_PrimaryFailureReturns(c, p, outcome) ==
    IF DecompressSuccess(outcome)
    THEN RestoreSuccess(p, KeyAt(c, p))
    ELSE IF p = 0 THEN RestoreCaught(p) ELSE RestoreContinue(p, c.restoreKeys)

\* const success = await decompressWithZstd(cachePath, targetDir); if (success) ...
RestoreDecompressStep(c, p, outcome) ==
    IF DecompressSuccess(outcome)
    THEN RestoreSuccess(p, KeyAt(c, p))
    ELSE RestoreContinue(p, c.restoreKeys)

Restore(primaryKey, restoreKeysArg, targetDirArg) ==
    /\ Idle
    /\ call' = [op |-> "restore", key |-> primaryKey,
                restoreKeys |-> IF restoreKeysArg = <<>> THEN <<>> ELSE restoreKeysArg[1],
                targetDir |-> IF targetDirArg = <<>> THEN "/" ELSE targetDirArg[1]]
    /\ pc' = "restoreProbe"
    /\ pos' = 0
    /\ probes' = <<>>
    /\ decompressCalls' = <<>>
    /\ compressCalls' = <<>>
    /\ compressReturned' = <<>>
    /\ result' = NoResult
    /\ UNCHANGED <<env, cacheDirExists, archive, content, fsPaths>>
    /\ UNCHANGED <<entryVars, concVars>>

RestoreProbe(mkdirOk) ==
    LET d == getCacheDir(cacheDirExists, mkdirOk)
        n == RestoreProbeStep(call, pos, d.threw)
    IN  /\ pc = "restoreProbe"
        /\ probes' = Append(probes, KeyAt(call, pos))
        /\ cacheDirExists' = d.dirExists
        /\ pc' = n.pc
        /\ pos' = n.pos
        /\ result' = n.result
        /\ UNCHANGED <<env, archive, content, fsPaths, call, decompressCalls, compressCalls,
                       compressReturned>>
        /\ UNCHANGED <<entryVars, concVars>>

RestoreDecompress(outcome, dirOk, writable) ==
    LET key == KeyAt(call, pos)
        n == RestoreDecompressStep(call, pos, outcome)
        x == Extraction(outcome, ArchiveName(key), call.targetDir, dirOk, writable)
    IN  /\ pc = "restoreDecompress"
        /\ outcome \in DecompressOutcomes(archive[ArchiveName(key)])
        /\ decompressCalls' = Append(decompressCalls,
                                     [archivePath |-> getCacheFilePath(key),
                                      targetDir |-> call.targetDir,
                                      outcome |-> outcome,
                                      extractedTo |-> x.extractedTo,
                                      fallback |-> x.fallback,
                                      members |-> x.members])
        /\ fsPaths' = IF x.extractedTo = Cwd THEN fsPaths \cup x.members ELSE fsPaths
        /\ pc' = n.pc
        /\ pos' = n.pos
        /\ result' = n.result
        /\ UNCHANGED <<env, cacheDirExists, archive, content, call, probes,
                       compressCalls, compressReturned>>
        /\ UNCHANGED <<entryVars, concVars>>

----------------------------------------------------------------------------
(* LocalCache.save: asynchronous, one step up to the awaited compressWithZstd
   and one for its return *)

\* compressionLevel: number = 3
DefaultCompressionLevel == 3

\* paths.filter((p) => fs.existsSync(p))
ExistingPaths(paths) == SelectSeq(paths, LAMBDA p : p \in fsPaths)

\* Faulty variant of SaveStart: the early return for an empty filtered list is missing.
SaveStart_NoEarlyReturn(paths, key, levelArg, threw) ==
    LET c == [op |-> "save", paths |-> paths, key |-> key, levelArg |-> levelArg,
              compressionLevel |-> IF levelArg = <<>> THEN DefaultCompressionLevel
                                   ELSE levelArg[1],
              existingPaths |-> ExistingPaths(paths)]
    IN  IF threw
        THEN [call |-> c, mkdir |-> TRUE, pc |-> "done", result |-> SaveResult(FALSE)]
        ELSE [call |-> c, mkdir |-> TRUE, pc |-> "saveCompress", result |-> NoResult]

\* Up to the await: the filter, the early return, getCacheFilePath.
SaveStart(paths, key, levelArg, threw) ==
    LET existingPaths == ExistingPaths(paths)
        c == [op |-> "save", paths |-> paths, key |-> key, levelArg |-> levelArg,
              compressionLevel |-> IF levelArg = <<>> THEN DefaultCompressionLevel
                                   ELSE levelArg[1],
              existingPaths |-> existingPaths]
    IN  IF existingPaths = <<>>
        THEN [call |-> c, mkdir |-> FALSE, pc |-> "done", result |-> SaveResult(FALSE)]
        ELSE IF threw
        THEN [call |-> c, mkdir |-> TRUE, pc |-> "done", result |-> SaveResult(FALSE)]
        ELSE [call |-> c, mkdir |-> TRUE, pc |-> "saveCompress", result |-> NoResult]

\* Faulty variant of CompressArgs: the unfiltered paths are handed to the codec.
CompressArgs_UnfilteredPaths(c) ==
    [archivePath |-> getCacheFilePath(c.key),
     paths |-> c.paths,
     compressionLevel |-> c.compressionLevel]

\* Faulty variant of CompressArgs: every key is saved to one and the same file.
CompressArgs_OneFile(c) ==
    [archivePath |-> getCacheFilePath(<<"b">>),
     paths |-> c.existingPaths,
     compressionLevel |-> c.compressionLevel]

\* The arguments save hands to compressWithZstd.
CompressArgs(c) ==
    [archivePath |-> getCacheFilePath(c.key),
     paths |-> c.existingPaths,
     compressionLevel |-> c.compressionLevel]

\* Faulty variant of SaveReturn: the codec's boolean is ignored.
SaveReturn_AlwaysTrue(success) == SaveResult(TRUE)

\* if (success) return true else return false
SaveReturn(success) == SaveResult(success)

Save(paths, key, levelArg, mkdirOk) ==
    LET d == getCacheDir(cacheDirExists, mkdirOk)
        n == SaveStart(paths, key, levelArg, d.threw)
    IN  /\ Idle
        /\ call' = n.call
        /\ cacheDirExists' = IF n.mkdir THEN d.dirExists ELSE cacheDirExists
        /\ pc' = n.pc
        /\ result' = n.result
        /\ pos' = 0
        /\ probes' = <<>>
        /\ decompressCalls' = <<>>
        /\ compressCalls' = <<>>
        /\ compressReturned' = <<>>
        /\ UNCHANGED <<env, archive, content, fsPaths>>
        /\ UNCHANGED <<entryVars, concVars>>

SaveCompress(o) ==
    LET name == CompressArgs(call).archivePath.file
    IN  /\ pc = "saveCompress"
        /\ o \in CompressOutcomes(archive[name])
        /\ compressCalls' = Append(compressCalls, CompressArgs(call))
        /\ compressReturned' = Append(compressReturned, CompressSuccess(o.outcome))
        /\ archive' = [archive EXCEPT ![name] = o.file]
        /\ content' = [content EXCEPT
                           ![name] = ContentAfter(content[name], o.wrote, call.key,
                                                  call.existingPaths)]
        /\ result' = SaveReturn(CompressSuccess(o.outcome))
        /\ pc' = "done"
        /\ UNCHANGED <<env, cacheDirExists, fsPaths, call, pos, probes, decompressCalls>>
        /\ UNCHANGED <<entryVars, concVars>>

----------------------------------------------------------------------------
(* The entry points: one engine operation per process *)

\* The process that made the call ends; the cache directory stays as it is.
Exit ==
    /\ pc = "done"
    /\ pc' = "idle"
    /\ call' = NoCall
    /\ pos' = 0
    /\ probes' = <<>>
    /\ decompressCalls' = <<>>
    /\ compressCalls' = <<>>
    /\ compressReturned' = <<>>
    /\ result' = NoResult
    /\ UNCHANGED <<env, cacheDirExists, archive, content, fsPaths>>
    /\ UNCHANGED <<entryVars, concVars>>

----------------------------------------------------------------------------

TypeOK ==
    /\ env \in Envs
    /\ cacheDirExists \in BOOLEAN
    /\ archive \in [ArchiveNames -> {"absent", "valid", "corrupt"}]
    /\ fsPaths \subseteq Paths
    /\ pc \in {"idle", "done", "restoreProbe", "restoreDecompress", "saveCompress"}
    /\ (~cacheDirExists) => \A n \in ArchiveNames : archive[n] = "absent"
    /\ \A n \in ArchiveNames :
          /\ content[n].members \subseteq Paths
          /\ content[n].key \in Keys \cup {<<>>}
          /\ (archive[n] = "valid") <=> (content[n] # NoContent)
          /\ content[n] # NoContent => ArchiveName(content[n].key) = n

InitEngine ==
    /\ env \in Envs
    /\ cacheDirExists \in BOOLEAN
    /\ archive = [n \in ArchiveNames |-> "absent"]
    /\ content = [n \in ArchiveNames |-> NoContent]
    /\ fsPaths \in SUBSET Paths
    /\ pc = "idle"
    /\ call = NoCall
    /\ pos = 0
    /\ probes = <<>>
    /\ decompressCalls = <<>>
    /\ compressCalls = <<>>
    /\ compressReturned = <<>>
    /\ result = NoResult

\* The engine on its own: no entry point runs.
Init ==
    /\ InitEngine
    /\ entry = NoEntry
    /\ outputs = <<>>
    /\ failed = FALSE
    /\ stateWrites = <<>>
    /\ savedState = NoState
    /\ procs = [p \in AllProcs |-> NoProc]
    /\ blocks = <<>>

RestoreKeyLists == SeqsUpTo(Keys, MaxRestoreKeys)

PathLists == SeqsUpTo(Paths, MaxPaths)

AllCompressOutcomes == UNION { CompressOutcomes(f) : f \in {"absent", "valid", "corrupt"} }

Next ==
    \/ Idle /\ \E k \in Keys, rk \in Optional(RestoreKeyLists), ok \in BOOLEAN :
          Lookup(k, rk, ok)
    \/ Idle /\ \E k \in Keys, rk \in Optional(RestoreKeyLists),
                   dir \in Optional(TargetDirs) :
          Restore(k, rk, dir)
    \/ \E ok \in BOOLEAN : RestoreProbe(ok)
    \/ \E outcome \in {"toolMissing", "missingFile", "exit0", "exitNonZero"},
          dirOk \in BOOLEAN, writable \in BOOLEAN :
          RestoreDecompress(outcome, dirOk, writable)
    \/ Idle /\ \E paths \in PathLists, k \in Keys, level \in Optional(Levels),
                   ok \in BOOLEAN :
          Save(paths, k, level, ok)
    \/ \E o \in AllCompressOutcomes : SaveCompress(o)
    \/ Exit

Spec == Init /\ [][Next]_vars

----------------------------------------------------------------------------
(* utils.ts called on its own: getCacheFilePath and resolvePaths over every
   short input *)

\* Characters of keys: letters and digits of both cases, the underscore, and
\* characters that are not safe in a file name.
KeyChars == {"a", "Z", "7", "_", "-", "/", ".", " "}

UtilKeys == SeqsUpTo(KeyChars, MaxKeyLen)

\* Characters of the path input: path characters, blanks and line ends.
RawChars == {"a", "/", " ", "\r", "\n"}

RawInputs == SeqsUpTo(RawChars, MaxRawLen)

\* getCacheFilePath(key): safeKey is computed first, then getCacheDir runs and
\* may throw.
GetCacheFilePathCall(key, mkdirOk) ==
    LET d == getCacheDir(cacheDirExists, mkdirOk)
        name == safeKey(key)
    IN  /\ Idle
        /\ call' = [op |-> "getCacheFilePath", key |-> key, safeKey |-> name]
        /\ cacheDirExists' = d.dirExists
        /\ result' = IF d.threw
                     THEN [kind |-> "threw"]
                     ELSE [kind |-> "path", dir |-> CacheDirPath(env),
                           file |-> Append(name, ".tar.zst")]
        /\ pc' = "done"
        /\ UNCHANGED <<env, archive, content, fsPaths, pos, logVars>>
        /\ UNCHANGED <<entryVars, concVars>>

\* getCacheDir(): dirExisted is what fs.existsSync(cacheDir) answered.
GetCacheDirCall(mkdirOk) ==
    LET d == getCacheDir(cacheDirExists, mkdirOk)
    IN  /\ Idle
        /\ call' = [op |-> "getCacheDir", dirExisted |-> cacheDirExists]
        /\ cacheDirExists' = d.dirExists
        /\ result' = IF d.threw
                     THEN [kind |-> "threw", mkdir |-> d.mkdir]
                     ELSE [kind |-> "dir", dir |-> CacheDirPath(env), mkdir |-> d.mkdir]
        /\ pc' = "done"
        /\ UNCHANGED <<env, archive, content, fsPaths, pos, logVars>>
        /\ UNCHANGED <<entryVars, concVars>>

ResolvePathsCall(pathInput) ==
    /\ Idle
    /\ call' = [op |-> "resolvePaths", pathInput |-> pathInput]
    /\ result' = [kind |-> "paths", paths |-> resolvePaths(pathInput)]
    /\ pc' = "done"
    /\ UNCHANGED <<env, fsVars, fsPaths, pos, logVars>>
    /\ UNCHANGED <<entryVars, concVars>>

\* No workspace path matters to the two functions.
InitUtils == Init /\ fsPaths = {}

NextUtils ==
    \/ Idle /\ \E k \in UtilKeys, ok \in BOOLEAN : GetCacheFilePathCall(k, ok)
    \/ Idle /\ \E raw \in RawInputs : ResolvePathsCall(raw)
    \/ Idle /\ \E ok \in BOOLEAN : GetCacheDirCall(ok)
    \/ Exit

SpecUtils == InitUtils /\ [][NextUtils]_vars

----------------------------------------------------------------------------
(* main.ts, restore.ts and save.ts: the entry points of the action.  An
   invocation reads its inputs, performs one engine operation and reports. *)

engineVars == <<env, cacheDirExists, archive, content, fsPaths, pc, call, pos,
                probes, decompressCalls, compressCalls, compressReturned, result>>

\* The key input as core.getInput returns it; <<>> is an input left empty.
EntryKeys == { <<>>, <<"b">>, <<"a", "-">> }

\* The path input: a path name stands for its characters.
PathInputs == { <<>>, <<"node_modules">>,
                <<"dist", " ", "\n", "\n", "node_modules">> }

\* The restore-keys input.
RestoreKeyInputs == { <<>>, <<"b">>, <<"a", "/", " ", "\n", "b">> }

\* The compression-level input.
LevelInputs == {"", "9x"}

EntryInputs ==
    [key : EntryKeys, path : PathInputs, restoreKeys : RestoreKeyInputs,
     level : LevelInputs, failOnCacheMiss : BOOLEAN, lookupOnly : BOOLEAN]

\* What core.getState may hold when post() starts.
StoredStates ==
    { NoState,
      [CACHE_KEY |-> <<"b">>, CACHE_PATH |-> <<"node_modules">>,
       CACHE_COMPRESSION_LEVEL |-> ""],
      [CACHE_KEY |-> <<>>, CACHE_PATH |-> <<"node_modules">>,
       CACHE_COMPRESSION_LEVEL |-> "9"],
      [CACHE_KEY |-> <<"b">>, CACHE_PATH |-> <<>>,
       CACHE_COMPRESSION_LEVEL |-> "9"] }

\* parseInt(s, 10) on the level strings of the model: the leading digits count.
parseInt(s) == CASE s = "3" -> 3 [] s = "9" -> 9 [] s = "9x" -> 9

\* Number.prototype.toString on the levels of the model.
toString(n) == CASE n = 3 -> "3" [] n = 9 -> "9"

\* Boolean.prototype.toString
BoolString(b) == IF b THEN "true" ELSE "false"

\* parseInt(core.getInput('compression-level') || '3', 10), and the same on
\* core.getState('CACHE_COMPRESSION_LEVEL')
CompressionLevel(s) == parseInt(IF s = "" THEN "3" ELSE s)

\* restoreKeys ? restoreKeys.split('\n').map((s) => s.trim()).filter((s) => s !== '') : []
restoreKeysList(restoreKeys) ==
    IF restoreKeys = <<>> THEN <<>>
    ELSE LET lines == Split(restoreKeys)
             trimmed == [i \in 1..Len(lines) |-> Trim(lines[i])]
         IN  SelectSeq(trimmed, LAMBDA t : t # <<>>)

\* The paths that resolvePaths returns, as the path names of the engine model.
PathNames(list) == [i \in 1..Len(list) |-> list[i][1]]

\* Faulty variant of InputMissing: the path input is not required.
InputMissing_KeyOnly(in) == in.key = <<>>

\* core.getInput(name, {required: true}) throws when the input is empty.
InputMissing(in) == in.path = <<>> \/ in.key = <<>>

\* !value of a string
Falsy(s) == s = Undefined \/ s = <<>>

\* The inputs are read; a missing required input ends in the catch block,
\* core.setFailed, before any engine operation.
Start(name, in) ==
    /\ Idle
    /\ entry = NoEntry
    /\ entry' = [name |-> name,
                 stage |-> IF InputMissing(in) THEN "finished" ELSE "call",
                 key |-> in.key, path |-> in.path, restoreKeys |-> in.restoreKeys,
                 level |-> in.level, failOnCacheMiss |-> in.failOnCacheMiss,
                 lookupOnly |-> in.lookupOnly]
    /\ failed' = InputMissing(in)
    /\ outputs' = <<>>
    /\ stateWrites' = <<>>
    /\ UNCHANGED <<engineVars, savedState, concVars>>

\* run() of main.ts
MainRun(in) == Start("main", in)

\* run() of restore.ts, which reads no compression-level
RestoreRun(in) == in.level = "" /\ Start("restore", in)

\* run() of save.ts, which reads path, key and compression-level
SaveRun(in) ==
    /\ in.restoreKeys = <<>> /\ ~in.failOnCacheMiss /\ ~in.lookupOnly
    /\ Start("save", in)

\* Faulty variant of PostSkips: only the stored key is looked at.
PostSkips_KeyOnly(state) == Falsy(state.CACHE_KEY)

\* if (!key || !pathInput) return
PostSkips(state) == Falsy(state.CACHE_KEY) \/ Falsy(state.CACHE_PATH)

\* post() of main.ts, up to LocalCache.save
PostRun ==
    /\ Idle
    /\ entry = NoEntry
    /\ entry' = [name |-> "post",
                 stage |-> IF PostSkips(savedState) THEN "finished" ELSE "call",
                 key |-> savedState.CACHE_KEY, path |-> savedState.CACHE_PATH,
                 restoreKeys |-> <<>>, level |-> savedState.CACHE_COMPRESSION_LEVEL,
                 failOnCacheMiss |-> FALSE, lookupOnly |-> FALSE]
    /\ failed' = FALSE
    /\ outputs' = <<>>
    /\ stateWrites' = <<>>
    /\ UNCHANGED <<engineVars, savedState, concVars>>

\* The invocation is at its engine operation or at what follows it.
Running(names) == entry.name \in names /\ entry.stage = "call"

\* LocalCache.lookup(key, restoreKeysList)
EntryLookup(mkdirOk) ==
    /\ Running({"main", "restore"})
    /\ entry.lookupOnly
    /\ Lookup(entry.key, <<restoreKeysList(entry.restoreKeys)>>, mkdirOk)

\* main: LocalCache.restore(paths, key, restoreKeysList);
\* restore: LocalCache.restore(paths, key, restoreKeysList, workspaceDir)
EntryRestore(workspaceDir) ==
    /\ Running({"main", "restore"})
    /\ ~entry.lookupOnly
    /\ Restore(entry.key, <<restoreKeysList(entry.restoreKeys)>>,
               IF entry.name = "main" THEN <<>> ELSE <<workspaceDir>>)

\* LocalCache.save(paths, key, compressionLevel) of save.ts and of post()
EntrySave(mkdirOk) ==
    /\ Running({"save", "post"})
    /\ Save(PathNames(resolvePaths(entry.path)), entry.key,
            <<CompressionLevel(entry.level)>>, mkdirOk)

\* The key that the engine operation matched or restored.
FoundKey(c, res) == IF c.op = "lookup" THEN res.matchedKey ELSE res.restoredKey

\* Faulty variant of CacheHitOutput: a fallback match is reported as a hit.
CacheHitOutput_AnyMatch(c, res) == BoolString(FoundKey(c, res) # Undefined)

\* cacheHit.toString()
CacheHitOutput(c, res) == BoolString(res.cacheHit)

\* core.setOutput('cache-hit', ...); core.setOutput('cache-primary-key', key)
Outputs(e, c, res) ==
    << [name |-> "cache-hit", value |-> CacheHitOutput(c, res)],
       [name |-> "cache-primary-key", value |-> e.key] >>

\* lookup-only: if (failOnCacheMiss && !cacheHit) core.setFailed(...);
\* restore: the same in the branch that cacheHit and restoredKey both skip.
SetFailed(e, c, res) ==
    IF c.op = "lookup"
    THEN e.failOnCacheMiss /\ ~res.cacheHit
    ELSE ~res.cacheHit /\ Falsy(res.restoredKey) /\ e.failOnCacheMiss

\* Faulty variant of SavesState: the state is written whenever the primary key
\* was not restored.
SavesState_OnNoHit(e, c, res) ==
    /\ e.name = "main"
    /\ c.op = "restore"
    /\ ~res.cacheHit
    /\ ~e.failOnCacheMiss

\* main.ts reaches its core.saveState calls: restore mode, nothing restored,
\* fail-on-cache-miss off.
SavesState(e, c, res) ==
    /\ e.name = "main"
    /\ c.op = "restore"
    /\ ~res.cacheHit
    /\ Falsy(res.restoredKey)
    /\ ~e.failOnCacheMiss

\* core.saveState('CACHE_KEY', key); core.saveState('CACHE_PATH', path);
\* core.saveState('CACHE_COMPRESSION_LEVEL', compressionLevel.toString())
StateWrites(e) ==
    << [name |-> "CACHE_KEY", value |-> e.key],
       [name |-> "CACHE_PATH", value |-> e.path],
       [name |-> "CACHE_COMPRESSION_LEVEL",
        value |-> toString(CompressionLevel(e.level))] >>

\* main.ts and restore.ts after the engine operation returned.
Report ==
    /\ Running({"main", "restore"})
    /\ pc = "done"
    /\ outputs' = Outputs(entry, call, result)
    /\ failed' = SetFailed(entry, call, result)
    /\ IF SavesState(entry, call, result)
       THEN /\ stateWrites' = StateWrites(entry)
            /\ savedState' = [CACHE_KEY |-> entry.key, CACHE_PATH |-> entry.path,
                              CACHE_COMPRESSION_LEVEL |->
                                  toString(CompressionLevel(entry.level))]
       ELSE UNCHANGED <<stateWrites, savedState>>
    /\ entry' = [entry EXCEPT !.stage = "finished"]
    /\ UNCHANGED <<engineVars, concVars>>

\* save.ts and post() after LocalCache.save returned: a message, nothing else.
SaveReport ==
    /\ Running({"save", "post"})
    /\ pc = "done"
    /\ entry' = [entry EXCEPT !.stage = "finished"]
    /\ UNCHANGED <<engineVars, outputs, failed, stateWrites, savedState, concVars>>

\* The process of the invocation ends; the cross-phase state stays.
EntryExit ==
    /\ entry # NoEntry
    /\ entry.stage = "finished"
    /\ entry' = NoEntry
    /\ outputs' = <<>>
    /\ failed' = FALSE
    /\ stateWrites' = <<>>
    /\ pc' = "idle"
    /\ call' = NoCall
    /\ pos' = 0
    /\ probes' = <<>>
    /\ decompressCalls' = <<>>
    /\ compressCalls' = <<>>
    /\ compressReturned' = <<>>
    /\ result' = NoResult
    /\ UNCHANGED <<env, cacheDirExists, archive, content, fsPaths, savedState, concVars>>

InitEntry ==
    /\ InitEngine
    /\ env.RUNNER_TOOL_CACHE # ""
    /\ entry = NoEntry
    /\ outputs = <<>>
    /\ failed = FALSE
    /\ stateWrites = <<>>
    /\ savedState \in StoredStates
    /\ procs = [p \in AllProcs |-> NoProc]
    /\ blocks = <<>>

NextEntry ==
    \/ Idle /\ entry = NoEntry /\ \E in \in EntryInputs : MainRun(in)
    \/ Idle /\ entry = NoEntry /\ \E in \in EntryInputs : RestoreRun(in)
    \/ Idle /\ entry = NoEntry /\ \E in \in EntryInputs : SaveRun(in)
    \/ PostRun
    \/ \E ok \in BOOLEAN : EntryLookup(ok)
    \/ \E dir \in TargetDirs : EntryRestore(dir)
    \/ \E ok \in BOOLEAN : RestoreProbe(ok)
    \/ \E outcome \in {"toolMissing", "missingFile", "exit0", "exitNonZero"},
          dirOk \in BOOLEAN, writable \in BOOLEAN :
          RestoreDecompress(outcome, dirOk, writable)
    \/ \E ok \in BOOLEAN : EntrySave(ok)
    \/ \E o \in AllCompressOutcomes : SaveCompress(o)
    \/ Report
    \/ SaveReport
    \/ EntryExit

SpecEntry == InitEntry /\ [][NextEntry]_vars

----------------------------------------------------------------------------
(* Two processes save the same key at the same time: getCacheDir and the
   archive file that tar -cf writes, step by step *)

\* The number of blocks tar writes to the archive file.
ArchiveBlocks == 2

\* Faulty variant of mkdirSync: without {recursive: true} an existing directory
\* is an error.
mkdirSync_NotRecursive(dirExists, ok) ==
    IF dirExists THEN [error |-> "EEXIST", dirExists |-> TRUE]
    ELSE IF ok THEN [error |-> "none", dirExists |-> TRUE]
    ELSE [error |-> "EACCES", dirExists |-> FALSE]

\* fs.mkdirSync(cacheDir, {recursive: true}): a directory that exists by now is
\* no error; ok tells whether the filesystem lets the directory be created.
mkdirSync(dirExists, ok) ==
    IF dirExists THEN [error |-> "none", dirExists |-> TRUE]
    ELSE IF ok THEN [error |-> "none", dirExists |-> TRUE]
    ELSE [error |-> "EACCES", dirExists |-> FALSE]

\* A write of one block at position i of the file: the file grows, with a hole
\* (0) where nothing was written, or the block that was there is replaced.
WriteAt(file, i, w) ==
    [j \in 1..(IF i > Len(file) THEN i ELSE Len(file)) |->
        IF j = i THEN w ELSE IF j <= Len(file) THEN file[j] ELSE 0]

\* getCacheDir: fs.existsSync(cacheDir)
ExistsSync(p) ==
    /\ procs[p].pc = "start"
    /\ procs' = [procs EXCEPT ![p].pc = "checked", ![p].saw = cacheDirExists]
    /\ UNCHANGED <<engineVars, entryVars, blocks>>

\* getCacheDir: mkdirSync if existsSync answered false, then return cacheDir
MkdirSync(p, ok) ==
    LET m == mkdirSync(cacheDirExists, ok)
    IN  /\ procs[p].pc = "checked"
        /\ IF procs[p].saw
           THEN /\ procs' = [procs EXCEPT ![p].pc = "returned"]
                /\ UNCHANGED cacheDirExists
           ELSE /\ procs' = [procs EXCEPT
                                ![p].pc = IF m.error = "none" THEN "returned" ELSE "threw",
                                ![p].error = m.error]
                /\ cacheDirExists' = m.dirExists
        /\ UNCHANGED <<env, archive, content, fsPaths, pc, call, pos, probes,
                       decompressCalls, compressCalls, compressReturned, result,
                       entryVars, blocks>>

\* tar -cf archivePath: the file is opened for writing and truncated
TarOpen(p) ==
    /\ procs[p].pc = "returned"
    /\ procs' = [procs EXCEPT ![p].pc = "writing", ![p].offset = 0]
    /\ blocks' = <<>>
    /\ UNCHANGED <<engineVars, entryVars>>

\* tar writes its next block at its own file offset
TarWrite(p) ==
    /\ procs[p].pc = "writing"
    /\ procs[p].offset < ArchiveBlocks
    /\ blocks' = WriteAt(blocks, procs[p].offset + 1, p)
    /\ procs' = [procs EXCEPT ![p].offset = @ + 1]
    /\ UNCHANGED <<engineVars, entryVars>>

\* tar exits with code 0: compressWithZstd and save return true
TarExit(p) ==
    /\ procs[p].pc = "writing"
    /\ procs[p].offset = ArchiveBlocks
    /\ procs' = [procs EXCEPT ![p].pc = "saved"]
    /\ UNCHANGED <<engineVars, entryVars, blocks>>

\* The archive file is there: a tar has opened it, and nothing deletes it.
ArchiveFileExists == \E p \in Procs : procs[p].pc \in {"writing", "saved"}

\* cacheExists(key) of a lookup or restore: fs.existsSync of the archive path
ReaderCacheExists(r) ==
    /\ procs[r].pc = "returned"
    /\ procs' = [procs EXCEPT
                    ![r].pc = IF ArchiveFileExists THEN "found" ELSE "missed",
                    ![r].observed = IF ArchiveFileExists THEN blocks ELSE <<>>]
    /\ UNCHANGED <<engineVars, entryVars, blocks>>

\* restore: decompressWithZstd reads the file it found, as it is by now
ReaderDecompress(r) ==
    /\ procs[r].pc = "found"
    /\ procs' = [procs EXCEPT ![r].pc = "decompressed", ![r].observed = blocks]
    /\ UNCHANGED <<engineVars, entryVars, blocks>>

InitConc ==
    /\ InitEngine
    /\ env.RUNNER_TOOL_CACHE # ""
    /\ fsPaths = Paths
    /\ entry = NoEntry
    /\ outputs = <<>>
    /\ failed = FALSE
    /\ stateWrites = <<>>
    /\ savedState = NoState
    /\ procs = [p \in AllProcs |-> [NoProc EXCEPT !.pc = "start"]]
    /\ blocks = <<>>

NextConc ==
    \/ \E p \in AllProcs : ExistsSync(p)
    \/ \E p \in AllProcs, ok \in BOOLEAN : MkdirSync(p, ok)
    \/ \E p \in Procs : TarOpen(p)
    \/ \E p \in Procs : TarWrite(p)
    \/ \E p \in Procs : TarExit(p)
    \/ \E r \in Readers : ReaderCacheExists(r)
    \/ \E r \in Readers : ReaderDecompress(r)

SpecConc == InitConc /\ [][NextConc]_vars

----------------------------------------------------------------------------
(* compression.ts called on its own: compressWithZstd and decompressWithZstd
   statement by statement, with what they log and whether tar is started *)

\* What a codec call meets: io.which finds tar and zstd, mkdirSync of a missing
\* directory works (dirOk), accessSync(targetDir, W_OK) passes (writable), the
\* exit code of tar, and whether exec.exec rejects on a non-zero exit code
\* instead of returning it.
CodecEnvs ==
    [tar : BOOLEAN, zstd : BOOLEAN, dirOk : BOOLEAN, writable : BOOLEAN,
     exit : {"exit0", "exitNonZero"}, execThrows : BOOLEAN]

\* core.error / core.info of the given text; exec.exec('tar', ...) with -C dir.
LogError(text) == [level |-> "error", text |-> text, dir |-> ""]
LogInfo(text, dir) == [level |-> "info", text |-> text, dir |-> dir]
ExecTar(dir) == [level |-> "exec", text |-> "tar", dir |-> dir]

\* Faulty variant of Caught: the catch block logs and throws again.
Caught_Rethrows(trace, text) ==
    [kind |-> "codec", returned |-> FALSE, threw |-> TRUE,
     trace |-> Append(trace, LogError(text))]

\* catch (err) { error('Error during ...', err as Error); return false }
Caught(trace, text) ==
    [kind |-> "codec", returned |-> FALSE, threw |-> FALSE,
     trace |-> Append(trace, LogError(text))]

CodecReturn(value, trace) ==
    [kind |-> "codec", returned |-> value, threw |-> FALSE, trace |-> trace]

\* Faulty variant of WhichTools: a missing zstd is not noticed before tar is started.
WhichTools_TarOnly(x) == IF ~x.tar THEN "tar" ELSE "found"

\* await io.which('tar', true); zstdPath = await io.which('zstd', true)
WhichTools(x) == IF ~x.tar THEN "tar" ELSE IF ~x.zstd THEN "zstd" ELSE "found"

\* Faulty variant of FallbackLog: the fallback to the temp directory is not logged.
FallbackLog_Silent(dirOk, writable, temp) ==
    IF dirOk THEN <<>>
    ELSE << LogError("Failed to create target directory"),
            LogInfo("Falling back to current directory", Cwd) >>

\* What the two catch blocks around mkdirSync(targetDir) and accessSync log.
FallbackLog(dirOk, writable, temp) ==
    (IF dirOk THEN <<>>
     ELSE << LogError("Failed to create target directory"),
             LogInfo("Falling back to current directory", Cwd) >>)
    \o (IF writable THEN <<>>
        ELSE << LogError("No write permission for directory"),
                LogInfo("Falling back to temp directory", temp) >>)

\* decompressWithZstd(archivePath, targetDir) when the file at archivePath is
\* absent, valid or corrupt.
decompressWithZstd(file, targetDir, x) ==
    LET tools == WhichTools(x)
        dir == EffectiveTargetDir(targetDir, x.dirOk, x.writable)
        started == Append(FallbackLog(x.dirOk, x.writable, TempDir(env)), ExecTar(dir))
    IN  CASE tools = "tar" -> Caught(<<>>, "Error during decompression")
          [] tools = "zstd" ->
                Caught(<<LogError("zstd decompression tool not available, please install zstd")>>,
                       "Error during decompression")
          [] tools = "found" /\ file = "absent" ->
                CodecReturn(FALSE, <<LogError("Compressed file does not exist")>>)
          [] tools = "found" /\ file # "absent" /\ x.exit = "exit0" ->
                CodecReturn(TRUE, Append(started, LogInfo("Successfully decompressed", dir)))
          [] tools = "found" /\ file # "absent" /\ x.exit # "exit0" /\ x.execThrows ->
                Caught(started, "Error during decompression")
          [] tools = "found" /\ file # "absent" /\ x.exit # "exit0" /\ ~x.execThrows ->
                CodecReturn(FALSE, Append(started, LogError("Decompression failed, exit code")))

\* compressWithZstd(archivePath, paths, compressionLevel) when the directory of
\* archivePath exists or not (dirExists).
compressWithZstd(dirExists, x) ==
    LET tools == WhichTools(x)
        started == <<ExecTar("")>>
    IN  CASE tools = "tar" -> Caught(<<>>, "Error during compression")
          [] tools = "zstd" ->
                Caught(<<LogError("zstd compression tool not available, please install zstd")>>,
                       "Error during compression")
          [] tools = "found" /\ ~dirExists /\ ~x.dirOk ->
                Caught(<<>>, "Error during compression")
          [] tools = "found" /\ (dirExists \/ x.dirOk) /\ x.exit = "exit0" ->
                CodecReturn(TRUE, Append(started, LogInfo("Successfully compressed", "")))
          [] tools = "found" /\ (dirExists \/ x.dirOk) /\ x.exit # "exit0" /\ x.execThrows ->
                Caught(started, "Error during compression")
          [] tools = "found" /\ (dirExists \/ x.dirOk) /\ x.exit # "exit0" /\ ~x.execThrows ->
                CodecReturn(FALSE, Append(started,
                                          LogError("Compression with zstd failed, exit code")))

\* tar was started in the call that left this trace.
Started(trace) == \E i \in 1..Len(trace) : trace[i].level = "exec"

\* A call of decompressWithZstd on the archive of key; targetDir may be omitted.
DecompressCall(key, targetDirArg, x) ==
    LET name == ArchiveName(key)
        targetDir == IF targetDirArg = <<>> THEN "/" ELSE targetDirArg[1]
        r == decompressWithZstd(archive[name], targetDir, x)
    IN  /\ Idle
        /\ x.exit = "exit0" => archive[name] # "corrupt"
        /\ call' = [op |-> "decompressWithZstd", key |-> key, file |-> archive[name],
                    targetDir |-> targetDir, x |-> x]
        /\ result' = r
        /\ fsPaths' = IF r.returned /\ EffectiveTargetDir(targetDir, x.dirOk, x.writable) = Cwd
                      THEN fsPaths \cup content[name].members ELSE fsPaths
        /\ pc' = "done"
        /\ UNCHANGED <<env, fsVars, pos, logVars, entryVars, concVars>>

\* A call of compressWithZstd on the archive path of key; o is what tar does
\* to the file when it is started.
CompressCall(key, paths, x, o) ==
    LET name == ArchiveName(key)
        r == compressWithZstd(cacheDirExists, x)
        wrote == IF Started(r.trace) THEN o.wrote ELSE "nothing"
    IN  /\ Idle
        /\ o \in CompressOutcomes(archive[name])
        /\ o.outcome = x.exit
        /\ call' = [op |-> "compressWithZstd", key |-> key, file |-> archive[name],
                    paths |-> paths, dirExisted |-> cacheDirExists, x |-> x]
        /\ result' = r
        /\ cacheDirExists' = (cacheDirExists \/ (WhichTools(x) = "found" /\ x.dirOk))
        /\ archive' = [archive EXCEPT ![name] = IF Started(r.trace) THEN o.file ELSE @]
        /\ content' = [content EXCEPT ![name] = ContentAfter(@, wrote, key, paths)]
        /\ pc' = "done"
        /\ UNCHANGED <<env, fsPaths, pos, logVars, entryVars, concVars>>

\* No workspace path matters to the codec before it is called.
InitCodec == Init /\ fsPaths = {}

NextCodec ==
    \/ Idle /\ \E k \in {<<"b">>}, dir \in Optional(TargetDirs), x \in CodecEnvs :
          DecompressCall(k, dir, x)
    \/ Idle /\ \E k \in {<<"b">>}, x \in CodecEnvs :
          \E o \in CompressOutcomes(archive[ArchiveName(k)]) :
              CompressCall(k, <<"node_modules">>, x, o)
    \/ Exit

SpecCodec == InitCodec /\ [][NextCodec]_vars

----------------------------------------------------------------------------
(* The engine next to a process that deletes archive files: restore between
   its cacheExists and its decompressWithZstd *)

\* Another process removes the archive that restore has found and is about to
\* hand to decompressWithZstd.
RemoveArchive ==
    LET n == ArchiveName(KeyAt(call, pos))
    IN  /\ pc = "restoreDecompress"
        /\ archive[n] # "absent"
        /\ archive' = [archive EXCEPT ![n] = "absent"]
        /\ content' = [content EXCEPT ![n] = NoContent]
        /\ UNCHANGED <<env, cacheDirExists, fsPaths, pc, call, pos, result, logVars,
                       entryVars, concVars>>

InitRemoval == Init /\ env.RUNNER_TOOL_CACHE # ""

NextRemoval ==
    \/ Next
    \/ RemoveArchive

SpecRemoval == InitRemoval /\ [][NextRemoval]_vars

----------------------------------------------------------------------------
(* Properties *)

Returned(op) == pc = "done" /\ call.op = op

\* Some entry of a restoreKeys list has an archive.
SomeFallbackExists(restoreKeys) ==
    \E i \in 1..Len(restoreKeys) : cacheExists(restoreKeys[i])

\* The first entry, in list order, whose archive exists.
FirstExisting(restoreKeys) ==
    CHOOSE i \in 1..Len(restoreKeys) :
        /\ cacheExists(restoreKeys[i])
        /\ \A j \in 1..(i - 1) : ~cacheExists(restoreKeys[j])

\* C1: whenever lookup returns and the archive file of the primary key exists,
\* the result is {cacheHit: true, matchedKey: primaryKey}, whatever archives
\* exist for the entries of restoreKeys.
C1_LookupPrimaryWins ==
    (Returned("lookup") /\ cacheExists(call.key))
        => result = [kind |-> "lookup", cacheHit |-> TRUE, matchedKey |-> call.key]

\* lookup returned for a primary key that exists, with a fallback entry of
\* another file name that exists too.
C1_Witness ==
    /\ Returned("lookup")
    /\ cacheExists(call.key)
    /\ \E i \in 1..Len(call.restoreKeys) :
          /\ cacheExists(call.restoreKeys[i])
          /\ ArchiveName(call.restoreKeys[i]) # ArchiveName(call.key)
    /\ result.cacheHit

\* C2: whenever lookup returns, the primary key has no archive and some entry
\* of restoreKeys has one, the result is {cacheHit: false, matchedKey: r} with
\* r the first entry in list order whose archive exists.
C2_LookupFirstFallback ==
    (Returned("lookup") /\ ~cacheExists(call.key) /\ SomeFallbackExists(call.restoreKeys))
        => result = [kind |-> "lookup", cacheHit |-> FALSE,
                     matchedKey |-> call.restoreKeys[FirstExisting(call.restoreKeys)]]

\* lookup returned the second of two fallback entries, the first one and the
\* primary key having no archive.
C2_Witness ==
    /\ Returned("lookup")
    /\ ~cacheExists(call.key)
    /\ Len(call.restoreKeys) = 2
    /\ ~cacheExists(call.restoreKeys[1])
    /\ cacheExists(call.restoreKeys[2])
    /\ result.matchedKey = call.restoreKeys[2]

\* C3: whenever lookup returns, the result is {cacheHit: false, matchedKey:
\* undefined} if and only if neither the primary key nor any entry of
\* restoreKeys has an archive; and for an empty restoreKeys list the result is
\* {cacheHit: true, matchedKey: k} if and only if the archive of k exists.
C3_LookupMissIff ==
    Returned("lookup") =>
        /\ (result = [kind |-> "lookup", cacheHit |-> FALSE, matchedKey |-> Undefined])
              <=> (~cacheExists(call.key) /\ ~SomeFallbackExists(call.restoreKeys))
        /\ (call.restoreKeys = <<>>) =>
              ((result = [kind |-> "lookup", cacheHit |-> TRUE, matchedKey |-> call.key])
                  <=> cacheExists(call.key))

\* lookup returned the miss although the cache directory holds an archive (of
\* a key that was not asked for).
C3_Witness ==
    /\ Returned("lookup")
    /\ result.matchedKey = Undefined
    /\ call.restoreKeys # <<>>
    /\ \E n \in ArchiveNames : archive[n] # "absent"

\* The keys restore goes through: the primary key, then restoreKeys in order.
RestoreOrder(c) == <<c.key>> \o c.restoreKeys

\* The first decompression of a restore call whose primary key exists is the
\* primary key's.
PrimaryRestored ==
    /\ cacheExists(call.key)
    /\ decompressCalls # <<>>
    /\ decompressCalls[1].outcome = "exit0"

PrimaryFailed ==
    /\ cacheExists(call.key)
    /\ decompressCalls # <<>>
    /\ decompressCalls[1].outcome # "exit0"

NoDecompressSucceeded ==
    \A n \in 1..Len(decompressCalls) : decompressCalls[n].outcome # "exit0"

\* C4: whenever restore or lookup returns, cacheHit is true if and only if the
\* primary key matched and its action succeeded (for lookup: its archive
\* exists; for restore: its archive exists and the decompression made for the
\* primary key succeeded); every result obtained in the loop over restoreKeys
\* has cacheHit = false, also when that entry is equal to the primary key.
C4_CacheHitIffPrimary ==
    /\ Returned("lookup") => (result.cacheHit <=> cacheExists(call.key))
    /\ Returned("restore") =>
          /\ result.cacheHit <=> PrimaryRestored
          /\ result.cacheHit => (pos = 0 /\ result.restoredKey = call.key)
          /\ pos >= 1 => ~result.cacheHit

\* restore returned the primary key itself, restored through an entry of
\* restoreKeys equal to it after the primary attempt had failed.
C4_Witness ==
    /\ Returned("restore")
    /\ pos >= 1
    /\ call.restoreKeys[pos] = call.key
    /\ result.restoredKey = call.key
    /\ ~result.cacheHit
    /\ PrimaryFailed

\* C5: whenever restore returns after the primary key's archive existed and its
\* decompression succeeded, the result is {cacheHit: true, restoredKey:
\* primaryKey}, cacheExists was called for the primary key only and
\* decompressWithZstd was called once, for the primary key's archive.
C5_PrimaryRestoredNoFallback ==
    (Returned("restore") /\ PrimaryRestored) =>
        /\ result = [kind |-> "restore", cacheHit |-> TRUE, restoredKey |-> call.key]
        /\ probes = <<call.key>>
        /\ Len(decompressCalls) = 1
        /\ decompressCalls[1].archivePath = getCacheFilePath(call.key)

\* restore returned the primary key while a fallback entry of another file name
\* has an archive too.
C5_Witness ==
    /\ Returned("restore")
    /\ PrimaryRestored
    /\ result.cacheHit
    /\ \E i \in 1..Len(call.restoreKeys) :
          /\ cacheExists(call.restoreKeys[i])
          /\ ArchiveName(call.restoreKeys[i]) # ArchiveName(call.key)

\* The positions among 0..p of RestoreOrder whose archive exists, in order.
RECURSIVE ExistingUpTo(_, _)
ExistingUpTo(c, p) ==
    IF p < 0 THEN <<>>
    ELSE IF cacheExists(KeyAt(c, p))
         THEN Append(ExistingUpTo(c, p - 1), p)
         ELSE ExistingUpTo(c, p - 1)

\* C6: whenever restore returns without having restored the primary key, the
\* decompressions it made are those of the existing keys it went through, in
\* list order, each one before the last having failed; if one succeeded the
\* result is {cacheHit: false, restoredKey: r} with r the entry of restoreKeys
\* it was made for (the first that exists and decompresses), and if none
\* succeeded every existing entry of restoreKeys was tried.
C6_FirstRestorableFallback ==
    (Returned("restore") /\ ~PrimaryRestored) =>
        LET tried == ExistingUpTo(call, pos)
            n == Len(decompressCalls)
        IN  /\ Len(tried) = n
            /\ \A m \in 1..n :
                  decompressCalls[m].archivePath = getCacheFilePath(KeyAt(call, tried[m]))
            /\ \A m \in 1..(n - 1) : decompressCalls[m].outcome # "exit0"
            /\ IF NoDecompressSucceeded
               THEN /\ result.restoredKey = Undefined
                    /\ \A j \in 1..Len(call.restoreKeys) :
                          cacheExists(call.restoreKeys[j]) => j <= pos
               ELSE /\ pos >= 1
                    /\ tried[n] = pos
                    /\ result = [kind |-> "restore", cacheHit |-> FALSE,
                                 restoredKey |-> call.restoreKeys[pos]]

\* restore returned the second fallback entry after the first one, which
\* exists under another file name, had failed to decompress.
C6_Witness ==
    /\ Returned("restore")
    /\ pos = 2
    /\ result.restoredKey = call.restoreKeys[2]
    /\ cacheExists(call.restoreKeys[1])
    /\ ArchiveName(call.restoreKeys[1]) # ArchiveName(call.restoreKeys[2])
    /\ Len(decompressCalls) >= 2
    /\ decompressCalls[Len(decompressCalls) - 1].outcome = "exitNonZero"

\* C7: whenever restore returns after the primary key's archive existed and its
\* decompression failed, the result has cacheHit = false, cacheExists was
\* called for the primary key and then for the entries of restoreKeys in list
\* order, and restore ended either by restoring one of them or after the last.
C7_PrimaryFailureFallsBack ==
    (Returned("restore") /\ PrimaryFailed) =>
        /\ ~result.cacheHit
        /\ probes = SubSeq(RestoreOrder(call), 1, pos + 1)
        /\ result.restoredKey = Undefined => pos = Len(call.restoreKeys)
        /\ result.restoredKey # Undefined =>
              (pos >= 1 /\ result.restoredKey = call.restoreKeys[pos])

\* restore returned a fallback entry after the primary key's archive, which
\* exists, had failed to decompress.
C7_Witness ==
    /\ Returned("restore")
    /\ PrimaryFailed
    /\ pos >= 1
    /\ result.restoredKey = call.restoreKeys[pos]
    /\ call.restoreKeys[pos] # call.key

\* C8: whenever restore returns and no decompression succeeded, the result is
\* {cacheHit: false, restoredKey: undefined}; when neither the primary key nor
\* any entry of restoreKeys has an archive, decompressWithZstd was not called.
C8_RestoreMiss ==
    Returned("restore") =>
        /\ NoDecompressSucceeded =>
              result = [kind |-> "restore", cacheHit |-> FALSE, restoredKey |-> Undefined]
        /\ (\A i \in 1..Len(RestoreOrder(call)) : ~cacheExists(RestoreOrder(call)[i]))
              => (/\ decompressCalls = <<>>
                  /\ result = [kind |-> "restore", cacheHit |-> FALSE,
                               restoredKey |-> Undefined])

\* restore of three keys without archive returned the miss, all three probed,
\* while another key has an archive.
C8_Witness ==
    /\ Returned("restore")
    /\ Len(call.restoreKeys) = 2
    /\ Len(probes) = 3
    /\ decompressCalls = <<>>
    /\ result.restoredKey = Undefined
    /\ \E n \in ArchiveNames : archive[n] # "absent"

\* The paths of a list that exist, in list order.
Existing(paths) == SelectSeq(paths, LAMBDA p : p \in fsPaths)

\* C9: whenever save returns for a paths list of which no entry exists (the
\* empty list included), it returned false and compressWithZstd was not called.
C9_SaveNothingToCache ==
    (Returned("save") /\ \A i \in 1..Len(call.paths) : call.paths[i] \notin fsPaths)
        => (result = [kind |-> "save", success |-> FALSE] /\ compressCalls = <<>>)

\* save returned for a non-empty list of paths none of which exists, the cache
\* directory being there.
C9_Witness ==
    /\ Returned("save")
    /\ Len(call.paths) = 2
    /\ \A i \in 1..Len(call.paths) : call.paths[i] \notin fsPaths
    /\ fsPaths # {}
    /\ cacheDirExists

\* The one compressWithZstd call C10 describes.
ExpectedCompressCall ==
    [archivePath |-> [dir |-> CacheDirPath(env), file |-> ArchiveName(call.key)],
     paths |-> Existing(call.paths),
     compressionLevel |-> IF call.levelArg = <<>> THEN 3 ELSE call.levelArg[1]]

\* C10 as stated: whenever save returns for a paths list with at least one
\* existing entry, compressWithZstd was called exactly once, with the archive
\* path of the key, the existing paths in their order and the given level (3
\* when omitted).
C10_Original ==
    (Returned("save") /\ Existing(call.paths) # <<>>)
        => compressCalls = <<ExpectedCompressCall>>

\* C10 amended: the same, provided getCacheDir returned (the cache directory
\* exists once save is over); when creating the cache directory failed, save
\* returned false and compressWithZstd was not called.
C10_CompressOnceWithExistingPaths ==
    (Returned("save") /\ Existing(call.paths) # <<>>) =>
        IF cacheDirExists
        THEN compressCalls = <<ExpectedCompressCall>>
        ELSE compressCalls = <<>> /\ result = [kind |-> "save", success |-> FALSE]

\* save returned after one compressWithZstd call that was given a proper
\* sub-list of paths and the default level for an omitted one.
C10_Witness ==
    /\ Returned("save")
    /\ Len(compressCalls) = 1
    /\ Len(call.paths) = 2
    /\ Len(compressCalls[1].paths) = 1
    /\ call.levelArg = <<>>
    /\ compressCalls[1].compressionLevel = 3

SavedUnder(key) == content[ArchiveName(key)].key = key

\* The last decompressWithZstd call of the restore.
LastDecompress == decompressCalls[Len(decompressCalls)]

\* C12 as stated: a save of an existing path returns true, and a restore of
\* the saved key alone returns a hit on it with the saved paths extracted under
\* the targetDir it was given.
C12_Original ==
    /\ (Returned("save") /\ Existing(call.paths) # <<>>) => result.success
    /\ (Returned("restore") /\ call.restoreKeys = <<>> /\ SavedUnder(call.key))
          => (/\ result = RestoreResult(TRUE, call.key)
              /\ LastDecompress.extractedTo = call.targetDir
              /\ LastDecompress.members = content[ArchiveName(call.key)].members)

\* C12: a save that returns true has written exactly its existing paths to the
\* archive of its key; a later restore of that key alone returns a hit on it
\* exactly when its one decompressWithZstd call succeeds, and then the saved
\* paths are extracted under targetDir if targetDir exists or could be created
\* and is writable, under the temp directory if it is not writable, and under
\* the working directory if it could not be created.
C12_RoundTrip ==
    /\ (Returned("save") /\ result.success)
          => content[ArchiveName(call.key)] =
                 [key |-> call.key, members |-> Range(Existing(call.paths))]
    /\ (Returned("restore") /\ call.restoreKeys = <<>> /\ SavedUnder(call.key))
          => (/\ Len(decompressCalls) = 1
              /\ result = IF DecompressSuccess(LastDecompress.outcome)
                          THEN RestoreResult(TRUE, call.key)
                          ELSE RestoreMiss
              /\ DecompressSuccess(LastDecompress.outcome)
                    => (/\ LastDecompress.members = content[ArchiveName(call.key)].members
                        /\ LastDecompress.members # {}
                        /\ LastDecompress.extractedTo =
                              CASE LastDecompress.fallback = "none" -> call.targetDir
                                [] LastDecompress.fallback = "temp" -> TempDir(env)
                                [] LastDecompress.fallback = "cwd"  -> Cwd))

\* A key saved earlier was restored with a hit and its paths were extracted
\* under the targetDir that was asked for.
C12_Witness ==
    /\ Returned("restore")
    /\ call.restoreKeys = <<>>
    /\ SavedUnder(call.key)
    /\ result = RestoreResult(TRUE, call.key)
    /\ LastDecompress.fallback = "none"
    /\ LastDecompress.extractedTo = call.targetDir
    /\ LastDecompress.members = {"node_modules", "dist"}

\* save(paths, k) has just returned true.
SaveReturnedTrue(k) == Returned("save") /\ call.key = k /\ result.success

\* The archive file of k exists in the cache directory.
ArchiveInPlace(k) == cacheDirExists /\ archive[getCacheFilePath(k).file] # "absent"

\* C13: when save(paths, k) returns true the archive file of k exists in the
\* cache directory; no step of the engine removes it again; and as long as it
\* exists every lookup(k, R) that returns reports a hit on the primary key,
\* whatever R is.
C13_SavedKeyStaysFound ==
    /\ [](\A k \in Keys :
            /\ SaveReturnedTrue(k) => ArchiveInPlace(k)
            /\ (ArchiveInPlace(k) /\ Returned("lookup") /\ call.key = k)
                  => result = LookupPrimaryHit(k))
    /\ [][\A k \in Keys : ArchiveInPlace(k) => ArchiveInPlace(k)']_vars

\* A lookup with a non-empty restoreKeys list has hit the primary key, whose
\* archive was written by an earlier save under that key.
C13_Witness ==
    /\ Returned("lookup")
    /\ call.restoreKeys # <<>>
    /\ SavedUnder(call.key)
    /\ result = LookupPrimaryHit(call.key)

\* What a successful save of the call in progress leaves in its archive.
SavedContent == [key |-> call.key, members |-> Range(call.existingPaths)]

\* The compress call of a save returns true in this step.
SaveSucceeds == pc = "saveCompress" /\ pc' = "done" /\ result'.success

\* C14: a save that succeeds leaves at its key's path one valid archive that
\* holds exactly the paths of this save, whatever the file held before, and
\* touches no other archive file; when the file already held the archive of an
\* identical save, the files are afterwards as they were before.
C14_SaveOverwrites ==
    [][SaveSucceeds =>
          LET name == ArchiveName(call.key)
          IN  /\ DOMAIN archive' = DOMAIN archive
              /\ archive'[name] = "valid"
              /\ "exit0" \in DecompressOutcomes(archive'[name])
              /\ content'[name] = SavedContent
              /\ \A n \in ArchiveNames \ {name} :
                    archive'[n] = archive[n] /\ content'[n] = content[n]
              /\ (archive[name] = "valid" /\ content[name] = SavedContent)
                    => (archive' = archive /\ content' = content)]_vars

\* A second save with the same key and the same two paths has reached its
\* compress call, the archive of the first one being in place, next to another
\* key's archive.
C14_Witness ==
    /\ pc = "saveCompress"
    /\ call.existingPaths = <<"node_modules", "dist">>
    /\ archive[ArchiveName(call.key)] = "valid"
    /\ content[ArchiveName(call.key)] = SavedContent
    /\ \E n \in ArchiveNames \ {ArchiveName(call.key)} : archive[n] = "valid"

\* The values the three operations can return to their caller.
ReturnShapes(op) ==
    CASE op = "save"    -> [kind : {"save"}, success : BOOLEAN]
      [] op = "restore" -> [kind : {"restore"}, cacheHit : BOOLEAN,
                            restoredKey : Keys \cup {Undefined}]
      [] op = "lookup"  -> [kind : {"lookup"}, cacheHit : BOOLEAN,
                            matchedKey : Keys \cup {Undefined}]

\* The cache directory is missing once the call is over: getCacheDir's
\* mkdirSync threw, if the call got as far as getCacheDir.
CacheDirFailed == ~cacheDirExists

\* C15: every call of save, restore and lookup ends with a value of its normal
\* return shape, never with an exception; a filesystem error in getCacheDir, a
\* failing codec call and a missing tool end as false for save and as
\* {cacheHit: false, key undefined} for restore and lookup.
C15_NoExceptionEscapes ==
    pc = "done" =>
        /\ result.kind = call.op
        /\ result \in ReturnShapes(call.op)
        /\ (call.op = "save" /\ (CacheDirFailed \/ compressReturned = <<FALSE>>))
              => result = SaveResult(FALSE)
        /\ (call.op = "restore" /\ (CacheDirFailed \/ NoDecompressSucceeded))
              => result = RestoreMiss
        /\ (call.op = "lookup" /\ CacheDirFailed)
              => result = LookupMiss

\* A restore whose cache directory could not be created returned the miss.
C15_Witness ==
    /\ Returned("restore")
    /\ CacheDirFailed
    /\ probes = <<call.key>>
    /\ result = RestoreMiss

\* A call of lookup runs in this step (lookup is synchronous: one step).
LookupRuns == Idle /\ pc' = "done" /\ call'.op = "lookup"

\* C16: a lookup leaves the filesystem as it found it (the cache directory,
\* every archive file and its content, the workspace paths) and makes no
\* codec call, also when the cache directory does not exist yet.
C16_LookupLeavesFilesystem ==
    [][LookupRuns =>
          /\ cacheDirExists' = cacheDirExists
          /\ archive' = archive
          /\ content' = content
          /\ fsPaths' = fsPaths
          /\ compressCalls' = <<>>
          /\ decompressCalls' = <<>>]_vars

\* C17: the keys a lookup hands to cacheExists are a prefix of primary key,
\* restoreKeys[1], restoreKeys[2], ... in that order; no probed key but the
\* last exists, and the probing stops short of the end of the list only at a
\* key that exists (or at a probe that threw).
C17_LookupProbeOrder ==
    Returned("lookup") =>
        LET order == RestoreOrder(call)
            n == Len(probes)
        IN  /\ n \in 1..Len(order)
            /\ probes = SubSeq(order, 1, n)
            /\ \A i \in 1..(n - 1) : ~cacheExists(probes[i])
            /\ n < Len(order) => (cacheExists(probes[n]) \/ CacheDirFailed)

\* lookup(k, [r1, r2]) with only r2 existing has probed exactly k, r1, r2.
C17_Witness ==
    /\ Returned("lookup")
    /\ Len(call.restoreKeys) = 2
    /\ ~cacheExists(call.key)
    /\ ~cacheExists(call.restoreKeys[1])
    /\ cacheExists(call.restoreKeys[2])
    /\ probes = <<call.key, call.restoreKeys[1], call.restoreKeys[2]>>
    /\ result = LookupFallbackHit(call.restoreKeys[2])

\* Two different keys with the same archive file name.
Collide(k1, k2) == k1 # k2 /\ ArchiveName(k1) = ArchiveName(k2)

\* C19: when the archive in place was written under a key k1 that collides
\* with the key k2 of a save, the save that succeeds returns true like any
\* other and leaves k2's content in the shared file; and a lookup(k1, [])
\* that finds the shared file holding what was saved under k2 reports a hit on
\* k1.
C19_CollidingKeysShareArchive ==
    /\ [][(SaveSucceeds /\ Collide(content[ArchiveName(call.key)].key, call.key))
             => (/\ result' = SaveResult(TRUE)
                 /\ content'[ArchiveName(call.key)] = SavedContent
                 /\ \A n \in ArchiveNames \ {ArchiveName(call.key)} :
                       archive'[n] = archive[n])]_vars
    /\ [](\A k2 \in Keys :
            (/\ Returned("lookup")
             /\ call.restoreKeys = <<>>
             /\ Collide(call.key, k2)
             /\ content[ArchiveName(k2)].key = k2)
                => result = LookupPrimaryHit(call.key))

\* lookup("a-", []) reported a hit on "a-" although the archive holds what
\* was saved under "a/".
C19_Witness ==
    /\ Returned("lookup")
    /\ call.key = <<"a", "-">>
    /\ call.restoreKeys = <<>>
    /\ content[ArchiveName(call.key)].key = <<"a", "/">>
    /\ result = LookupPrimaryHit(<<"a", "-">>)

Cuts(raw) == {0, Len(raw) + 1} \cup { i \in 1..Len(raw) : raw[i] = "\n" }

\* The j-th smallest cut.
Cut(raw, j) ==
    CHOOSE p \in Cuts(raw) : Cardinality({ q \in Cuts(raw) : q < p }) = j - 1

\* The j-th line of a path input.
Line(raw, j) == SubSeq(raw, Cut(raw, j) + 1, Cut(raw, j + 1) - 1)

\* A line without the whitespace around it: from its first to its last
\* character that is not whitespace.
Trimmed(line) ==
    LET ink == { i \in 1..Len(line) : line[i] \notin Whitespace }
    IN  IF ink = {} THEN <<>>
        ELSE SubSeq(line,
                    CHOOSE i \in ink : \A j \in ink : i <= j,
                    CHOOSE i \in ink : \A j \in ink : i >= j)

\* The lines of a path input that are not empty or whitespace only.
InkLines(raw) ==
    { j \in 1..(Cardinality(Cuts(raw)) - 1) : Trimmed(Line(raw, j)) # <<>> }

\* C20: resolvePaths returns, in the order of the lines, the trimmed text of
\* every line of the input that is not empty or whitespace only: the n-th
\* entry is the n-th such line without its surrounding whitespace, and no
\* entry is empty, starts or ends with whitespace, or holds a line end.
C20_ResolvePaths ==
    Returned("resolvePaths") =>
        LET raw == call.pathInput
            out == result.paths
            kept == InkLines(raw)
        IN  /\ Len(out) = Cardinality(kept)
            /\ \A j \in kept :
                  out[Cardinality({ h \in kept : h <= j })] = Trimmed(Line(raw, j))
            /\ \A n \in 1..Len(out) :
                  /\ out[n] # <<>>
                  /\ out[n][1] \notin Whitespace
                  /\ out[n][Len(out[n])] \notin Whitespace
                  /\ \A i \in 1..Len(out[n]) : out[n][i] # "\n"

\* resolvePaths("a \n\n/") gave ["a", "/"]: a trimmed entry, a dropped empty
\* line, the order kept.
C20_Witness ==
    /\ Returned("resolvePaths")
    /\ call.pathInput = <<"a", " ", "\n", "\n", "/">>
    /\ result.paths = << <<"a">>, <<"/">> >>

----------------------------------------------------------------------------
(* C21: the cache directory *)

\* The directory the claim names: the tool-cache variable when it is set,
\* <HOME>/.local-cache otherwise.
HomeLocalCache == IF env.RUNNER_TOOL_CACHE # ""
                  THEN <<env.RUNNER_TOOL_CACHE>>
                  ELSE <<env.HOME, ".local-cache">>

\* C21 as stated: getCacheDir returns the tool-cache directory when that
\* variable is present and otherwise <HOME>/.local-cache, the directory exists
\* when it returns, and mkdir was called only if the directory was absent.
C21_Original ==
    (Returned("getCacheDir") /\ result.kind = "dir") =>
        /\ result.dir = HomeLocalCache
        /\ cacheDirExists
        /\ result.mkdir <=> ~call.dirExisted

\* C21: getCacheDir returns the tool-cache directory when that variable is
\* set; otherwise <HOME>/.local-cache when HOME is set, and /tmp/.local-cache
\* when HOME is not set either.  When it returns, the directory exists, and
\* mkdir was called exactly if the directory was absent.
C21_GetCacheDir ==
    (Returned("getCacheDir") /\ result.kind = "dir") =>
        /\ result.dir = (IF env.RUNNER_TOOL_CACHE = "" /\ env.HOME = ""
                         THEN <<"/tmp", ".local-cache">>
                         ELSE HomeLocalCache)
        /\ cacheDirExists
        /\ result.mkdir <=> ~call.dirExisted

\* With neither variable set and the directory absent, getCacheDir created
\* /tmp/.local-cache and returned it.
C21_Witness ==
    /\ Returned("getCacheDir")
    /\ result.kind = "dir"
    /\ env.RUNNER_TOOL_CACHE = "" /\ env.HOME = ""
    /\ ~call.dirExisted
    /\ result.mkdir
    /\ cacheDirExists

----------------------------------------------------------------------------
(* C25: no retries *)

\* C25: within one restore call no archive is handed to decompress more than
\* once (so none that failed is tried again), whatever the restoreKeys list,
\* and within one save call compress is invoked at most once.
C25_NoRetries ==
    /\ \A i, j \in 1..Len(decompressCalls) :
          i < j => decompressCalls[i].archivePath # decompressCalls[j].archivePath
    /\ Len(compressCalls) <= 1

----------------------------------------------------------------------------
(* C30: a cache directory that cannot be created *)

\* C30: when the cache directory cannot be created, the error of getCacheDir
\* reaches the engine operation and ends it: restore and lookup have probed
\* the primary key only, called no codec and return the miss; save has
\* called no codec and returns false.
C30_CacheDirFailureIsFatal ==
    (pc = "done" /\ CacheDirFailed) =>
        /\ call.op = "restore" =>
              /\ probes = <<call.key>>
              /\ decompressCalls = <<>>
              /\ result = RestoreMiss
        /\ call.op = "lookup" =>
              /\ probes = <<call.key>>
              /\ result = LookupMiss
        /\ call.op = "save" =>
              /\ compressCalls = <<>>
              /\ result = SaveResult(FALSE)

\* A lookup with two restore keys whose cache directory could not be created
\* returned the miss after the probe of the primary key.
C30_Witness ==
    /\ Returned("lookup")
    /\ CacheDirFailed
    /\ Len(call.restoreKeys) = 2
    /\ probes = <<call.key>>
    /\ result = LookupMiss

----------------------------------------------------------------------------
(* C22 - C24, C28, C29: the entry points *)

\* run() of main.ts or restore.ts is over and its inputs were complete.
Reported == entry.name \in {"main", "restore"} /\ entry.stage = "finished" /\ pc = "done"

\* C22: in the main and restore entry points, in lookup-only and in restore
\* mode, the invocation is marked failed only if fail-on-cache-miss is set and
\* neither the primary key nor any fallback key matched; without the flag it
\* is never marked failed by a miss.
C22_FailsOnlyOnMiss ==
    Reported =>
        /\ failed => (entry.failOnCacheMiss /\ FoundKey(call, result) = Undefined)
        /\ ~entry.failOnCacheMiss => ~failed

C24_StateWrittenOnMiss ==
    /\ (entry # NoEntry /\ entry.stage = "finished" /\ entry.name = "main" /\ pc = "done")
          => IF /\ call.op = "restore"
                /\ result.restoredKey = Undefined
                /\ ~entry.failOnCacheMiss
             THEN /\ [i \in 1..Len(stateWrites) |-> stateWrites[i].name]
                        = <<"CACHE_KEY", "CACHE_PATH", "CACHE_COMPRESSION_LEVEL">>
                  /\ stateWrites[1].value = entry.key
                  /\ stateWrites[2].value = entry.path
                  /\ stateWrites[3].value = (IF entry.level = "" THEN "3" ELSE "9")
                  /\ savedState = [CACHE_KEY |-> entry.key, CACHE_PATH |-> entry.path,
                                   CACHE_COMPRESSION_LEVEL |-> stateWrites[3].value]
             ELSE stateWrites = <<>>
    /\ (entry # NoEntry /\ ~(entry.stage = "finished" /\ entry.name = "main" /\ pc = "done"))
          => stateWrites = <<>>

\* main restored nothing for "a-" with the compression-level input "9x" and
\* stored the key, the path input and the level "9".
C24_Witness ==
    /\ entry # NoEntry /\ entry.stage = "finished" /\ entry.name = "main"
    /\ Returned("restore")
    /\ result = RestoreMiss
    /\ entry.level = "9x"
    /\ savedState = [CACHE_KEY |-> <<"a", "-">>,
                     CACHE_PATH |-> <<"dist", " ", "\n", "\n", "node_modules">>,
                     CACHE_COMPRESSION_LEVEL |-> "9"]
    /\ Len(stateWrites) = 3

\* The post-phase save (post() of main.ts, or run() of save.ts) created the
\* archive it reports.
PostPhaseSaved ==
    (entry.name \in {"post", "save"} /\ entry.stage = "finished" /\ pc = "done"
        /\ compressReturned = <<TRUE>>)
    => (/\ call.op = "save"
        /\ call.key = entry.key
        /\ call.existingPaths # <<>>
        /\ ArchiveInPlace(entry.key)
        /\ SavedUnder(entry.key))

C29_PostSavesStored ==
    entry.name = "post" =>
        /\ ~failed
        /\ entry.stage = "finished" =>
              IF savedState.CACHE_KEY # <<>> /\ savedState.CACHE_PATH # <<>>
              THEN /\ Returned("save")
                   /\ call.key = savedState.CACHE_KEY
                   /\ call.paths = PathNames(resolvePaths(savedState.CACHE_PATH))
                   /\ call.levelArg # <<>>
                   /\ call.compressionLevel =
                         (CASE savedState.CACHE_COMPRESSION_LEVEL = "" -> 3
                            [] savedState.CACHE_COMPRESSION_LEVEL = "3" -> 3
                            [] savedState.CACHE_COMPRESSION_LEVEL = "9" -> 9)
                   /\ Len(compressCalls) <= 1
              ELSE pc = "idle" /\ call = NoCall /\ compressCalls = <<>>

\* post() saved the key "b" stored without a compression level at level 3.
C29_Witness ==
    /\ entry.name = "post"
    /\ entry.stage = "finished"
    /\ Returned("save")
    /\ savedState.CACHE_COMPRESSION_LEVEL = ""
    /\ call.key = <<"b">>
    /\ call.paths = <<"node_modules">>
    /\ compressCalls # <<>>
    /\ compressCalls[1].compressionLevel = 3

----------------------------------------------------------------------------
(* C26, C27: processes racing on the cache directory *)

\* C26: when two processes call getCacheDir at the same time, no call fails
\* because the other process created the directory first; a call that returns
\* finds the directory in place; and unless the filesystem refuses to create
\* the directory, in every interleaving both calls return and the directory
\* exists afterwards.
C26_ConcurrentGetCacheDir ==
    /\ \A p \in Procs :
          /\ procs[p].error # "EEXIST"
          /\ procs[p].pc \in {"returned", "writing", "saved"} => cacheDirExists
          /\ procs[p].pc = "threw" => procs[p].error = "EACCES"
    /\ (\A p \in Procs : procs[p].pc \notin {"start", "checked"}
                          /\ procs[p].error # "EACCES")
          => (cacheDirExists /\ \A p \in Procs : procs[p].pc # "threw")

\* Both processes found the directory absent, one created it, and the mkdir of
\* the other, coming second, returned as well.
C26_Witness ==
    /\ \A p \in Procs : ~procs[p].saw /\ procs[p].pc = "returned"
    /\ cacheDirExists

\* C27: once both saves of the key have finished, the archive file is entirely
\* the one written by one of the two, never a mixture of both.
C27_LastWriterWins ==
    (\A p \in Procs : procs[p].pc = "saved")
        => \E w \in Procs : blocks = [i \in 1..ArchiveBlocks |-> w]

----------------------------------------------------------------------------
(* C31, C32: the codec on its own *)

\* A codec call is over.
CodecReturned == pc = "done" /\ call.op \in {"compressWithZstd", "decompressWithZstd"}

\* The call logged an error.
LoggedError == \E i \in 1..Len(result.trace) : result.trace[i].level = "error"

\* C31: compressWithZstd and decompressWithZstd never throw; with tar or zstd
\* missing, with a non-zero exit code of tar (returned or thrown by exec) and
\* with a directory that cannot be created for the archive they return false
\* and have logged an error; with a tool missing tar was not started; and
\* they return true only when tar was started and exited 0.
C31_CodecNeverThrows ==
    CodecReturned =>
        /\ ~result.threw
        /\ (~call.x.tar \/ ~call.x.zstd)
              => (/\ ~result.returned /\ LoggedError /\ ~Started(result.trace))
        /\ (Started(result.trace) /\ call.x.exit = "exitNonZero")
              => (~result.returned /\ LoggedError)
        /\ (call.op = "compressWithZstd" /\ ~call.dirExisted /\ ~call.x.dirOk)
              => (~result.returned /\ LoggedError /\ ~Started(result.trace))
        /\ ~result.returned => LoggedError
        /\ result.returned => (Started(result.trace) /\ call.x.exit = "exit0")

\* C31 as stated: the codec functions never throw, and a missing tool, a
\* non-zero exit code and any I/O error, the failing mkdirSync or accessSync of
\* targetDir included, end in the return value false with a logged error,
\* tar not being started when a tool is missing.
C31_Original ==
    /\ C31_CodecNeverThrows
    /\ (CodecReturned /\ call.op = "decompressWithZstd"
          /\ (~call.x.dirOk \/ ~call.x.writable))
          => (~result.returned /\ LoggedError)

\* With zstd missing, decompressWithZstd logged that and returned false
\* without starting tar.
C31_Witness ==
    /\ CodecReturned
    /\ call.op = "decompressWithZstd"
    /\ call.x.tar /\ ~call.x.zstd
    /\ call.file = "valid"
    /\ ~result.returned
    /\ ~result.threw
    /\ Len(result.trace) = 2
    /\ ~Started(result.trace)

\* The position in the trace at which tar was started.
ExecAt(trace) == CHOOSE i \in 1..Len(trace) : trace[i].level = "exec"

\* C32: when tar and zstd are found, the archive exists and targetDir is not
\* writable, decompressWithZstd starts tar on the temp directory (RUNNER_TEMP,
\* else /tmp), has logged that directory as the fallback before tar is
\* started, and returns what the exit code of tar says; when targetDir is
\* writable, no temp directory is used or logged.
C32_TempDirFallback ==
    (CodecReturned /\ call.op = "decompressWithZstd"
        /\ call.x.tar /\ call.x.zstd /\ call.file # "absent")
    => LET trace == result.trace
           temp == IF env.RUNNER_TEMP # "" THEN env.RUNNER_TEMP ELSE "/tmp"
           logged == { i \in 1..Len(trace) :
                          trace[i] = LogInfo("Falling back to temp directory", temp) }
       IN  /\ Started(trace)
           /\ result.returned <=> call.x.exit = "exit0"
           /\ IF call.x.writable
              THEN /\ logged = {}
                   /\ trace[ExecAt(trace)].dir = (IF call.x.dirOk THEN call.targetDir ELSE Cwd)
              ELSE /\ trace[ExecAt(trace)].dir = temp
                   /\ \E i \in logged : i < ExecAt(trace)

\* With no RUNNER_TEMP and a targetDir without write permission the archive
\* was extracted to /tmp: the fallback was logged, then tar ran, and the call
\* returned true.
C32_Witness ==
    /\ CodecReturned
    /\ call.op = "decompressWithZstd"
    /\ env.RUNNER_TEMP = ""
    /\ call.targetDir = "/work"
    /\ call.x.dirOk /\ ~call.x.writable
    /\ result.returned
    /\ result.trace = << LogError("No write permission for directory"),
                         LogInfo("Falling back to temp directory", "/tmp"),
                         ExecTar("/tmp"),
                         LogInfo("Successfully decompressed", "/tmp") >>

----------------------------------------------------------------------------
(* C34: configuration errors *)

\* The main, restore or save entry point runs with the key or the path input
\* missing.
ConfigError ==
    /\ entry.name \in {"main", "restore", "save"}
    /\ (entry.key = <<>> \/ entry.path = <<>>)

\* C34: an invocation of the main, restore or save entry point with the key or
\* the path input missing is marked failed and is over at once: no engine
\* operation was called, no codec call made, no output set and no state
\* written, and it leaves the cache directory, the archives, the workspace
\* and the cross-phase state as they were.
C34_ConfigErrorAborts ==
    /\ [](ConfigError =>
            /\ failed
            /\ entry.stage = "finished"
            /\ pc = "idle"
            /\ call = NoCall
            /\ probes = <<>>
            /\ decompressCalls = <<>>
            /\ compressCalls = <<>>
            /\ outputs = <<>>
            /\ stateWrites = <<>>)
    /\ [][ConfigError' => UNCHANGED <<fsVars, fsPaths, savedState>>]_vars

\* The save entry point was started without a key: it is marked failed and
\* has called nothing.
C34_Witness ==
    /\ entry.name = "save"
    /\ entry.key = <<>>
    /\ entry.path = <<"node_modules">>
    /\ failed
    /\ call = NoCall

----------------------------------------------------------------------------
(* C35: no eviction *)

\* C35: no step of save, restore or lookup deletes the cache directory or an
\* archive file, so the set of archive files never shrinks; a key that a
\* lookup reports has its archive in place, and a lookup whose primary key
\* or restore keys include a key with an archive in place reports a key.
C35_NoEviction ==
    /\ [][/\ cacheDirExists => cacheDirExists'
          /\ \A n \in ArchiveNames : archive[n] # "absent" => archive'[n] # "absent"]_vars
    /\ [](Returned("lookup") =>
            /\ result.matchedKey # Undefined => ArchiveInPlace(result.matchedKey)
            /\ ArchiveInPlace(call.key) => result.matchedKey = call.key
            /\ (\E i \in 1..Len(call.restoreKeys) : ArchiveInPlace(call.restoreKeys[i]))
                  => result.matchedKey # Undefined)

\* A lookup found the archive of the restore key "b", which a failed save had
\* left truncated and nothing has removed.
C35_Witness ==
    /\ Returned("lookup")
    /\ call.key = <<"a", "-">>
    /\ result.matchedKey = <<"b">>
    /\ archive[ArchiveName(<<"b">>)] = "corrupt"

----------------------------------------------------------------------------
(* C36: the target directory of a restore *)

\* Every decompressWithZstd call of the restore was given the targetDir of
\* the restore, and the last one was given the archive of the key returned.
RestoredWithTargetDir ==
    /\ decompressCalls # <<>>
    /\ \A i \in 1..Len(decompressCalls) : decompressCalls[i].targetDir = call.targetDir
    /\ LastDecompress.archivePath = getCacheFilePath(result.restoredKey)
    /\ DecompressSuccess(LastDecompress.outcome)

\* C36 as stated: when restore returns a restoredKey, every decompression
\* attempt of the call was given the caller's targetDir and the archive of
\* that key was extracted into that targetDir.
C36_Original ==
    (Returned("restore") /\ result.restoredKey # Undefined) =>
        /\ RestoredWithTargetDir
        /\ LastDecompress.extractedTo = call.targetDir

\* C36: when restore returns a restoredKey (exact or fallback), every
\* decompression attempt of the call was given the caller's targetDir, and
\* the archive of that key was extracted into that targetDir if it exists or
\* could be created and is writable, into the temp directory if it is not
\* writable, and into the working directory if it could not be created.
C36_RestoreTargetDir ==
    (Returned("restore") /\ result.restoredKey # Undefined) =>
        /\ RestoredWithTargetDir
        /\ LastDecompress.extractedTo =
              (CASE LastDecompress.fallback = "none" -> call.targetDir
                 [] LastDecompress.fallback = "temp" ->
                        (IF env.RUNNER_TEMP # "" THEN env.RUNNER_TEMP ELSE "/tmp")
                 [] LastDecompress.fallback = "cwd" -> Cwd)

\* restore returned the fallback key "b" with the targetDir "/work", and the
\* archive of "b" was extracted into the temp directory.
C36_Witness ==
    /\ Returned("restore")
    /\ call.targetDir = "/work"
    /\ result = RestoreResult(FALSE, <<"b">>)
    /\ LastDecompress.fallback = "temp"
    /\ LastDecompress.extractedTo = "/runner/_temp"

----------------------------------------------------------------------------
(* C37: restore and lookup resolve alike *)

\* What lookup(k, R) returns on the archives as they are.
LookupOf(k, R) == LookupBody(k, R).result

\* C37: a restore all of whose decompressions succeeded returns the cacheHit
\* and the key that lookup returns for the same primary key and restoreKeys
\* on the same archives, whatever the targetDir.
C37_SameResolution ==
    (Returned("restore")
        /\ \A i \in 1..Len(decompressCalls) : DecompressSuccess(decompressCalls[i].outcome))
    => /\ result.cacheHit = LookupOf(call.key, call.restoreKeys).cacheHit
       /\ result.restoredKey = LookupOf(call.key, call.restoreKeys).matchedKey

\* restore("a-", ["a/", "b"]) with only the archive of "b" in place restored
\* "b" without a hit, as lookup reports it.
C37_Witness ==
    /\ Returned("restore")
    /\ call.key = <<"a", "-">>
    /\ call.restoreKeys = << <<"a", "/">>, <<"b">> >>
    /\ result = RestoreResult(FALSE, <<"b">>)
    /\ Len(decompressCalls) = 1
    /\ LookupOf(call.key, call.restoreKeys) = LookupFallbackHit(<<"b">>)

----------------------------------------------------------------------------
(* C38: a save that fails *)

\* The save in progress returns false in this step.
SaveFails == call'.op = "save" /\ pc # "done" /\ pc' = "done" /\ ~result'.success

\* C38: a save that returns false leaves the archive of its key as it was:
\* where there was no archive file there is none afterwards, so that a lookup
\* of the key still misses, and a valid archive is still a valid archive.
C38_FailedSaveLeavesCache ==
    [][SaveFails =>
          LET n == ArchiveName(call'.key)
          IN  /\ archive[n] = "absent" => archive'[n] = "absent"
              /\ archive[n] = "valid" => archive'[n] = "valid"]_vars

----------------------------------------------------------------------------
(* C40: the frame of the engine operations *)

\* The archive file of this name is created, rewritten or removed in the step.
ArchiveChanges(n) == archive'[n] # archive[n] \/ content'[n] # content[n]

\* C40: a step of restore or lookup changes no archive file, and a step of
\* save(paths, k, level) changes no archive file but the one at
\* getCacheFilePath(k): the archive of every key with another sanitized name
\* stays as it is.
C40_ArchiveFrame ==
    [][\A n \in ArchiveNames :
          ArchiveChanges(n) =>
              /\ call'.op = "save"
              /\ n = getCacheFilePath(call'.key).file
              /\ \A k \in Keys : safeKey(k) # safeKey(call'.key)
                    => ~ArchiveChanges(getCacheFilePath(k).file)]_vars

\* A save of "b" has written the archive of "b" next to the archive that a
\* save of "a-" had written, which is still what it was.
C40_Witness ==
    /\ Returned("save")
    /\ call.key = <<"b">>
    /\ result.success
    /\ content[ArchiveName(<<"b">>)].key = <<"b">>
    /\ content[ArchiveName(<<"a", "-">>)] = [key |-> <<"a", "-">>, members |-> {"dist"}]

----------------------------------------------------------------------------
(* C33: an archive removed under a running restore *)

\* decompressWithZstd is called on an archive file that is gone.
DecompressOfRemoved ==
    /\ pc = "restoreDecompress"
    /\ archive[ArchiveName(KeyAt(call, pos))] = "absent"
    /\ Len(decompressCalls') = Len(decompressCalls) + 1

\* C33: when the archive of a key is removed between restore's cacheExists and
\* its decompressWithZstd, the decompression returns false without tar being
\* started and nothing is extracted; restore does not throw and goes on as
\* after any failed decompression: to the next entry of restoreKeys, or to
\* the miss when there is none.
C33_ArchiveRemovedBeforeDecompress ==
    /\ [][DecompressOfRemoved =>
            LET d == decompressCalls'[Len(decompressCalls')]
            IN  /\ ~DecompressSuccess(d.outcome)
                /\ d.outcome \in {"missingFile", "toolMissing"}
                /\ d.extractedTo = "" /\ d.members = {}
                /\ \A x \in CodecEnvs :
                      LET r == decompressWithZstd("absent", d.targetDir, x)
                      IN  ~r.returned /\ ~r.threw /\ ~Started(r.trace)
                /\ fsPaths' = fsPaths
                /\ IF pos < Len(call.restoreKeys)
                   THEN pc' = "restoreProbe" /\ pos' = pos + 1 /\ result' = NoResult
                   ELSE pc' = "done" /\ result' = RestoreMiss]_vars
    /\ [](Returned("restore") => result \in ReturnShapes("restore"))

\* The archive of the primary key "a-" was removed after restore had found
\* it: its decompression failed on the missing file and restore went on to
\* restore the fallback key "b".
C33_Witness ==
    /\ Returned("restore")
    /\ call.key = <<"a", "-">>
    /\ Len(decompressCalls) = 2
    /\ decompressCalls[1].outcome = "missingFile"
    /\ archive[ArchiveName(<<"a", "-">>)] = "absent"
    /\ result = RestoreResult(FALSE, <<"b">>)

----------------------------------------------------------------------------
(* C39: a reader next to a running save *)

\* The file is an archive that one save has written from start to end.
Complete(file) == \E w \in Procs : file = [i \in 1..ArchiveBlocks |-> w]

\* C39: a lookup or restore that runs next to a save of the same key finds
\* the archive, and decompresses it, only as a completely written archive.
C39_NoPartialArchiveObserved ==
    \A r \in Readers :
        procs[r].pc \in {"found", "decompressed"} => Complete(procs[r].observed)

====
